---- MODULE Spec2Model ----
(***************************************************************************)
(* State-machine model of the orders / order-items store                   *)
(* (src/database.py), of the request handlers built on it (src/main.py)    *)
(* and of the JSON export and import (src/main.py, src/data_manager.py).   *)
(*                                                                         *)
(* Spec runs the calls of the store and of the item handlers on one order. *)
(* ImportSpec runs the import next to the calls that prepare its stores,   *)
(* MoveSpec the item calls on two orders, ReportSpec the reports, exports  *)
(* and get/list calls, PathSpec the item routes under an order's path,     *)
(* AnyValueSpec the item calls with any quantity and price, SummarySpec    *)
(* the order summary over two products, and RouterSpec the router's calls  *)
(* that create, change or remove items.  RaceSpec, DeleteRaceSpec and      *)
(* SnapshotSpec run two callers at once, statement by statement: item      *)
(* calls and orders created with their items; deletions next to additions  *)
(* and imports; reports next to writes.  FairSpec adds fair scheduling of  *)
(* the two callers.                                                        *)
(*                                                                         *)
(* Money is counted in thousandths of a currency unit ("mills"), so that   *)
(* round(x, 2) is a real conversion: it rounds to a multiple of 10 mills,  *)
(* ties to even, as Python's round does on the binary-exact values used    *)
(* here (0.125 -> 0.12, 0.375 -> 0.38).  The input values are chosen so   *)
(* that a sum is a tie only where the code's floating-point result is the  *)
(* same (an explicit line total is 0.124), because a tie reached by adding *)
(* inexact binary fractions rounds either way in the arithmetic of the     *)
(* code.                                                                   *)
(***************************************************************************)
EXTENDS Integers, Sequences, FiniteSets, TLC

(* ---------------- bounds of the model ---------------- *)
MaxOrderId == 1
MaxItemId == 2
MaxDocLen == 2

(* ---------------- input domains ---------------- *)
NoId == 0
Customers == {101, 102}
Dates == {20250810}
Products == {501}
UnitPrices == {125}
ExplicitLineTotals == {124}
Amounts == {0, 150000}

OrderRefs == 1..MaxOrderId
ItemRefs == 1..MaxItemId

(* The specifications about two orders at once (an import next to stored *)
(* orders, an item moved between orders) allow one more order.           *)
OrderCap == MaxOrderId + 1
WideOrderRefs == 1..OrderCap

OrderPayloads ==
    [order_id : {NoId}, customer_id : Customers, order_date : Dates,
     total_amount : Amounts]

(* An item payload either leaves line_total out (quantity 1) or supplies *)
(* it (quantity 2).                                                       *)
OrderItemPayloads ==
    [order_item_id : {NoId}, order_id : OrderRefs, product_id : Products,
     quantity : {1}, unit_price : UnitPrices, line_total : {<<>>}]
    \cup
    [order_item_id : {NoId}, order_id : OrderRefs, product_id : Products,
     quantity : {2}, unit_price : UnitPrices,
     line_total : {<<t>> : t \in ExplicitLineTotals}]

OrderItemRequests ==
    [product_id : Products, quantity : {1}, unit_price : UnitPrices]

(* Payloads of the create calls may carry an identifier of their own. *)
SuppliedIds == {NoId, 7}

OrderCreatePayloads ==
    {[o EXCEPT !.order_id = id] : o \in OrderPayloads, id \in SuppliedIds}

OrderItemCreatePayloads ==
    {[i EXCEPT !.order_item_id = id] : i \in OrderItemPayloads, id \in SuppliedIds}

(* Interchange documents: entries of the "data" list.  An entry may lack  *)
(* its "items" or its "order" key, and an item may lack its "quantity"    *)
(* key.                                                                   *)
OrderInfo ==
    [order_id |-> 1, customer_id |-> 102, order_date |-> 20250810,
     total_amount |-> 150000]

GoodItemInfo ==
    [order_item_id |-> 1, order_id |-> 1, product_id |-> 501, quantity |-> 1,
     unit_price |-> 125]

BadItemInfo == [product_id |-> 501, unit_price |-> 125]

ImportEntries ==
    { [order |-> OrderInfo, items |-> <<GoodItemInfo>>],
      [order |-> OrderInfo, items |-> <<GoodItemInfo, BadItemInfo>>],
      [order |-> OrderInfo],
      [items |-> <<GoodItemInfo>>] }

RECURSIVE SeqsUpTo(_, _)
SeqsUpTo(S, n) ==
    IF n = 0 THEN {<<>>}
    ELSE LET shorter == SeqsUpTo(S, n - 1)
         IN  shorter \cup {Append(q, e) : q \in shorter, e \in S}

ImportDocs ==
    {[data |-> q] : q \in SeqsUpTo(ImportEntries, MaxDocLen)}
    \cup {[export_date |-> 20250810]}

(* The rows an import of a document inserts: those of the entries that   *)
(* have both keys, up to the first item that lacks a key.                *)
EntryOk(order_data) == {"order", "items"} \subseteq DOMAIN order_data

ItemInfoOk(item_info) ==
    {"product_id", "quantity", "unit_price"} \subseteq DOMAIN item_info

FirstBad(item_infos) ==
    LET bad == {k \in 1..Len(item_infos) : ~ItemInfoOk(item_infos[k])}
    IN  IF bad = {} THEN 0 ELSE CHOOSE k \in bad : \A j \in bad : k <= j

RECURSIVE DocRows(_, _)
DocRows(data, k) ==
    IF k > Len(data) THEN [orders |-> 0, items |-> 0]
    ELSE IF ~EntryOk(data[k]) THEN DocRows(data, k + 1)
    ELSE IF FirstBad(data[k].items) # 0
    THEN [orders |-> 1, items |-> FirstBad(data[k].items) - 1]
    ELSE LET rest == DocRows(data, k + 1)
         IN  [orders |-> rest.orders + 1,
              items |-> rest.items + Len(data[k].items)]

DocNeed ==
    [doc \in ImportDocs |->
        IF "data" \in DOMAIN doc THEN DocRows(doc.data, 1)
        ELSE [orders |-> 0, items |-> 0]]

(* ---------------- the store ---------------- *)
VARIABLES orders, items, order_seq, item_seq, used_order_ids, used_item_ids,
          last, exchange, calls, passed

vars == <<orders, items, order_seq, item_seq, used_order_ids, used_item_ids,
          last, exchange, calls, passed>>

db == [orders |-> orders, items |-> items,
       order_seq |-> order_seq, item_seq |-> item_seq]

(* ---------------- pure helpers ---------------- *)
SetMax(S) == IF S = {} THEN 0 ELSE CHOOSE m \in S : \A x \in S : x <= m

Round2(x) ==
    LET q == x \div 10
        r == x % 10
    IN  IF r < 5 THEN q * 10
        ELSE IF r > 5 THEN (q + 1) * 10
        ELSE IF q % 2 = 0 THEN q * 10 ELSE (q + 1) * 10

RECURSIVE SumLineTotal(_, _)
SumLineTotal(its, S) ==
    IF S = {} THEN 0
    ELSE LET i == CHOOSE x \in S : TRUE
         IN  its[i].line_total + SumLineTotal(its, S \ {i})

ItemsOf(its, oid) == {i \in DOMAIN its : its[i].order_id = oid}

(* ORDER BY on an identifier column: the identifiers in ascending order. *)
RECURSIVE Ascending(_)
Ascending(S) ==
    IF S = {} THEN <<>>
    ELSE LET least == CHOOSE x \in S : \A y \in S : x <= y
         IN  <<least>> \o Ascending(S \ {least})

(* Variant: a plain rowid table, which takes the largest live rowid + 1. *)
NextRowId_max_rowid(seq, rows) == SetMax(DOMAIN rows) + 1

NextRowId(seq, rows) == SetMax({seq} \cup DOMAIN rows) + 1

Put(f, k, v) == [x \in DOMAIN f \cup {k} |-> IF x = k THEN v ELSE f[x]]

Drop(f, S) == [x \in DOMAIN f \ S |-> f[x]]

OrderOut(d, id) ==
    [order_id |-> id, customer_id |-> d.orders[id].customer_id,
     order_date |-> d.orders[id].order_date,
     total_amount |-> d.orders[id].total_amount]

OrderItemOut(d, id) ==
    [order_item_id |-> id, order_id |-> d.items[id].order_id,
     product_id |-> d.items[id].product_id,
     quantity |-> d.items[id].quantity,
     unit_price |-> d.items[id].unit_price,
     line_total |-> <<d.items[id].line_total>>]

(* ---------------- OrderDatabase ---------------- *)
(* Variant: the sum is written without rounding. *)
update_order_total_unrounded(d, order_id) ==
    LET total == SumLineTotal(d.items, ItemsOf(d.items, order_id))
    IN  IF order_id \in DOMAIN d.orders
        THEN [d EXCEPT !.orders[order_id].total_amount = total]
        ELSE d

(* Variant: the total is incremented by the line total of the order's  *)
(* newest item.                                                        *)
update_order_total_incremental(d, order_id) ==
    LET owned == ItemsOf(d.items, order_id)
        added == IF owned = {} THEN 0 ELSE d.items[SetMax(owned)].line_total
    IN  IF order_id \in DOMAIN d.orders
        THEN [d EXCEPT !.orders[order_id].total_amount =
                          Round2(d.orders[order_id].total_amount + added)]
        ELSE d

(* Variant: the UPDATE has no WHERE clause. *)
update_order_total_every_order(d, order_id) ==
    LET total == Round2(SumLineTotal(d.items, ItemsOf(d.items, order_id)))
    IN  IF order_id \in DOMAIN d.orders
        THEN [d EXCEPT !.orders =
                 [o \in DOMAIN d.orders |->
                     [d.orders[o] EXCEPT !.total_amount = total]]]
        ELSE d

update_order_total(d, order_id) ==
    LET total == Round2(SumLineTotal(d.items, ItemsOf(d.items, order_id)))
    IN  IF order_id \in DOMAIN d.orders
        THEN [d EXCEPT !.orders[order_id].total_amount = total]
        ELSE d

create_order(d, order) ==
    LET id == NextRowId(d.order_seq, d.orders)
        row == [customer_id |-> order.customer_id,
                order_date |-> order.order_date,
                total_amount |-> order.total_amount]
    IN  [db |-> [d EXCEPT !.orders = Put(d.orders, id, row), !.order_seq = id],
         ret |-> <<[order EXCEPT !.order_id = id]>>]

get_order(d, order_id) ==
    IF order_id \in DOMAIN d.orders THEN <<OrderOut(d, order_id)>> ELSE <<>>

(* Variant: the order update re-derives the total from the items. *)
update_order_recomputing(d, order_id, order) ==
    IF order_id \notin DOMAIN d.orders
    THEN [db |-> d, ret |-> <<>>]
    ELSE LET d1 == [d EXCEPT !.orders[order_id] =
                       [customer_id |-> order.customer_id,
                        order_date |-> order.order_date,
                        total_amount |-> order.total_amount]]
             d2 == update_order_total(d1, order_id)
         IN  [db |-> d2, ret |-> <<OrderOut(d2, order_id)>>]

update_order(d, order_id, order) ==
    IF order_id \notin DOMAIN d.orders
    THEN [db |-> d, ret |-> <<>>]
    ELSE [db |-> [d EXCEPT !.orders[order_id] =
                     [customer_id |-> order.customer_id,
                      order_date |-> order.order_date,
                      total_amount |-> order.total_amount]],
          ret |-> <<[order EXCEPT !.order_id = order_id]>>]

(* Variant: the order row is deleted, its items are left behind. *)
delete_order_keep_items(d, order_id) ==
    LET hit == {order_id} \cap DOMAIN d.orders
    IN  [db |-> [d EXCEPT !.orders = Drop(d.orders, hit)],
         ret |-> <<Cardinality(hit) > 0>>,
         changes |-> Cardinality(hit)]

delete_order(d, order_id) ==
    LET gone == ItemsOf(d.items, order_id)
        hit == {order_id} \cap DOMAIN d.orders
    IN  [db |-> [d EXCEPT !.items = Drop(d.items, gone),
                          !.orders = Drop(d.orders, hit)],
         ret |-> <<Cardinality(gone) + Cardinality(hit) > 0>>,
         changes |-> Cardinality(gone) + Cardinality(hit)]

LineTotalOf(order_item) ==
    IF order_item.line_total = <<>>
    THEN Round2(order_item.quantity * order_item.unit_price)
    ELSE order_item.line_total[1]

ItemRow(order_item) ==
    [order_id |-> order_item.order_id, product_id |-> order_item.product_id,
     quantity |-> order_item.quantity, unit_price |-> order_item.unit_price,
     line_total |-> LineTotalOf(order_item)]

create_order_item(d, order_item) ==
    LET id == NextRowId(d.item_seq, d.items)
        d1 == [d EXCEPT !.items = Put(d.items, id, ItemRow(order_item)),
                        !.item_seq = id]
    IN  [db |-> update_order_total(d1, order_item.order_id),
         ret |-> <<[order_item EXCEPT !.order_item_id = id,
                                      !.line_total = <<LineTotalOf(order_item)>>]>>]

get_order_item(d, order_item_id) ==
    IF order_item_id \in DOMAIN d.items
    THEN <<OrderItemOut(d, order_item_id)>> ELSE <<>>

(* Variant: the total is re-derived before the missing row is noticed. *)
update_order_item_eager_total(d, order_item_id, order_item) ==
    IF order_item_id \notin DOMAIN d.items
    THEN [db |-> update_order_total(d, order_item.order_id), ret |-> <<>>]
    ELSE LET d1 == [d EXCEPT !.items[order_item_id] = ItemRow(order_item)]
         IN  [db |-> update_order_total(d1, order_item.order_id),
              ret |-> <<[order_item EXCEPT
                            !.order_item_id = order_item_id,
                            !.line_total = <<LineTotalOf(order_item)>>]>>]

(* Variant: an update without a line total keeps the stored line total. *)
update_order_item_stale_line_total(d, order_item_id, order_item) ==
    IF order_item_id \notin DOMAIN d.items
    THEN [db |-> d, ret |-> <<>>]
    ELSE LET kept == IF order_item.line_total = <<>>
                     THEN d.items[order_item_id].line_total
                     ELSE order_item.line_total[1]
             d1 == [d EXCEPT !.items[order_item_id] =
                       [ItemRow(order_item) EXCEPT !.line_total = kept]]
         IN  [db |-> update_order_total(d1, order_item.order_id),
              ret |-> <<[order_item EXCEPT
                            !.order_item_id = order_item_id,
                            !.line_total = <<kept>>]>>]

update_order_item(d, order_item_id, order_item) ==
    IF order_item_id \notin DOMAIN d.items
    THEN [db |-> d, ret |-> <<>>]
    ELSE LET d1 == [d EXCEPT !.items[order_item_id] = ItemRow(order_item)]
         IN  [db |-> update_order_total(d1, order_item.order_id),
              ret |-> <<[order_item EXCEPT
                            !.order_item_id = order_item_id,
                            !.line_total = <<LineTotalOf(order_item)>>]>>]

(* Variant: the item is deleted and the owning order's total is kept. *)
delete_order_item_stale_total(d, order_item_id) ==
    IF get_order_item(d, order_item_id) = <<>>
    THEN [db |-> d, ret |-> <<FALSE>>]
    ELSE [db |-> [d EXCEPT !.items = Drop(d.items, {order_item_id})],
          ret |-> <<TRUE>>]

delete_order_item(d, order_item_id) ==
    LET order_item == get_order_item(d, order_item_id)
    IN  IF order_item = <<>>
        THEN [db |-> d, ret |-> <<FALSE>>]
        ELSE LET d1 == [d EXCEPT !.items = Drop(d.items, {order_item_id})]
             IN  [db |-> update_order_total(d1, order_item[1].order_id),
                  ret |-> <<TRUE>>]

(* ---------------- request handlers (main.py) ---------------- *)
add_item_to_order(d, order_id, item_request) ==
    IF get_order(d, order_id) = <<>>
    THEN [db |-> d, ret |-> <<>>]
    ELSE create_order_item(d,
            [order_item_id |-> NoId, order_id |-> order_id,
             product_id |-> item_request.product_id,
             quantity |-> item_request.quantity,
             unit_price |-> item_request.unit_price,
             line_total |-> <<>>])

(* Variant: an item goes to the order its document entry names. *)
RECURSIVE import_items_document_owner(_, _, _, _, _)
import_items_document_owner(d, order_id, item_infos, k, imported_items) ==
    IF k > Len(item_infos)
    THEN [db |-> d, ok |-> TRUE, imported_items |-> imported_items]
    ELSE IF ~ItemInfoOk(item_infos[k])
    THEN [db |-> d, ok |-> FALSE, imported_items |-> imported_items]
    ELSE LET r == create_order_item(d,
                    [order_item_id |-> NoId,
                     order_id |-> item_infos[k].order_id,
                     product_id |-> item_infos[k].product_id,
                     quantity |-> item_infos[k].quantity,
                     unit_price |-> item_infos[k].unit_price,
                     line_total |-> <<>>])
         IN  import_items_document_owner(r.db, order_id, item_infos, k + 1,
                                         imported_items + 1)

(* Variant: the item counter is not advanced. *)
RECURSIVE import_items_uncounted(_, _, _, _, _)
import_items_uncounted(d, order_id, item_infos, k, imported_items) ==
    IF k > Len(item_infos)
    THEN [db |-> d, ok |-> TRUE, imported_items |-> imported_items]
    ELSE IF ~ItemInfoOk(item_infos[k])
    THEN [db |-> d, ok |-> FALSE, imported_items |-> imported_items]
    ELSE LET r == create_order_item(d,
                    [order_item_id |-> NoId, order_id |-> order_id,
                     product_id |-> item_infos[k].product_id,
                     quantity |-> item_infos[k].quantity,
                     unit_price |-> item_infos[k].unit_price,
                     line_total |-> <<>>])
         IN  import_items_uncounted(r.db, order_id, item_infos, k + 1,
                                    imported_items)

RECURSIVE import_items(_, _, _, _, _)
import_items(d, order_id, item_infos, k, imported_items) ==
    IF k > Len(item_infos)
    THEN [db |-> d, ok |-> TRUE, imported_items |-> imported_items]
    ELSE IF ~ItemInfoOk(item_infos[k])
    THEN [db |-> d, ok |-> FALSE, imported_items |-> imported_items]
    ELSE LET r == create_order_item(d,
                    [order_item_id |-> NoId, order_id |-> order_id,
                     product_id |-> item_infos[k].product_id,
                     quantity |-> item_infos[k].quantity,
                     unit_price |-> item_infos[k].unit_price,
                     line_total |-> <<>>])
         IN  import_items(r.db, order_id, item_infos, k + 1, imported_items + 1)

(* Variant: an entry without "order" or "items" ends the loop. *)
RECURSIVE import_entries_skip_ends_loop(_, _, _, _, _)
import_entries_skip_ends_loop(d, data, k, imported_orders, imported_items) ==
    IF k > Len(data)
    THEN [db |-> d, ok |-> TRUE, imported_orders |-> imported_orders,
          imported_items |-> imported_items, skipped |-> <<>>]
    ELSE IF ~EntryOk(data[k])
    THEN [db |-> d, ok |-> TRUE, imported_orders |-> imported_orders,
          imported_items |-> imported_items, skipped |-> <<k>>]
    ELSE LET order_info == data[k].order
             c == create_order(d,
                    [order_id |-> NoId, customer_id |-> order_info.customer_id,
                     order_date |-> order_info.order_date, total_amount |-> 0])
             i == import_items(c.db, c.ret[1].order_id, data[k].items, 1,
                               imported_items)
         IN  IF i.ok
             THEN import_entries_skip_ends_loop(i.db, data, k + 1,
                                                imported_orders + 1,
                                                i.imported_items)
             ELSE [db |-> i.db, ok |-> FALSE,
                   imported_orders |-> imported_orders + 1,
                   imported_items |-> i.imported_items, skipped |-> <<>>]

(* skipped lists the positions of the entries passed over, in the order   *)
(* the file importer prints them.                                         *)
RECURSIVE import_entries(_, _, _, _, _)
import_entries(d, data, k, imported_orders, imported_items) ==
    IF k > Len(data)
    THEN [db |-> d, ok |-> TRUE, imported_orders |-> imported_orders,
          imported_items |-> imported_items, skipped |-> <<>>]
    ELSE IF ~EntryOk(data[k])
    THEN LET r == import_entries(d, data, k + 1, imported_orders,
                                 imported_items)
         IN  [r EXCEPT !.skipped = <<k>> \o @]
    ELSE LET order_info == data[k].order
             c == create_order(d,
                    [order_id |-> NoId, customer_id |-> order_info.customer_id,
                     order_date |-> order_info.order_date, total_amount |-> 0])
             i == import_items(c.db, c.ret[1].order_id, data[k].items, 1,
                               imported_items)
         IN  IF i.ok
             THEN import_entries(i.db, data, k + 1, imported_orders + 1,
                                 i.imported_items)
             ELSE [db |-> i.db, ok |-> FALSE,
                   imported_orders |-> imported_orders + 1,
                   imported_items |-> i.imported_items, skipped |-> <<>>]

(* Variant: a failed import takes back the rows it had inserted. *)
import_orders_json_rolling_back(d, import_data) ==
    IF "data" \notin DOMAIN import_data
    THEN [db |-> d, ok |-> FALSE, imported_orders |-> 0, imported_items |-> 0,
          skipped |-> <<>>]
    ELSE LET r == import_entries(d, import_data.data, 1, 0, 0)
         IN  IF r.ok THEN r ELSE [r EXCEPT !.db = d]

(* Variant: a document without "data" is read as one with no entries. *)
import_orders_json_default_data(d, import_data) ==
    IF "data" \notin DOMAIN import_data
    THEN [db |-> d, ok |-> TRUE, imported_orders |-> 0, imported_items |-> 0,
          skipped |-> <<>>]
    ELSE import_entries(d, import_data.data, 1, 0, 0)

import_orders_json(d, import_data) ==
    IF "data" \notin DOMAIN import_data
    THEN [db |-> d, ok |-> FALSE, imported_orders |-> 0, imported_items |-> 0,
          skipped |-> <<>>]
    ELSE import_entries(d, import_data.data, 1, 0, 0)

(* What the import hands back: the two counts when the loop ran to its    *)
(* end, a 400 without counts otherwise (the file importer returns None).  *)
MissingData == "Invalid import format: missing 'data' field"
ImportFailed == "Import failed"

import_response(import_data, r) ==
    IF "data" \notin DOMAIN import_data
    THEN [status_code |-> 400, detail |-> MissingData]
    ELSE IF r.ok
    THEN [status_code |-> 200, imported_orders |-> r.imported_orders,
          imported_items |-> r.imported_items]
    ELSE [status_code |-> 400, detail |-> ImportFailed]

(* The export lists the orders by ascending identifier, each with the     *)
(* fields of its row and those of its items, by ascending identifier.     *)
ItemDump(d, id) ==
    [order_item_id |-> id, order_id |-> d.items[id].order_id,
     product_id |-> d.items[id].product_id,
     quantity |-> d.items[id].quantity,
     unit_price |-> d.items[id].unit_price,
     line_total |-> d.items[id].line_total]

get_order_items_by_order(d, order_id) ==
    LET ids == Ascending(ItemsOf(d.items, order_id))
    IN  [k \in 1..Len(ids) |-> ItemDump(d, ids[k])]

(* Variant: the orders are listed newest first. *)
get_all_orders_newest_first(d) ==
    LET ids == Ascending(DOMAIN d.orders)
    IN  [k \in 1..Len(ids) |-> OrderOut(d, ids[Len(ids) + 1 - k])]

get_all_orders(d) ==
    LET ids == Ascending(DOMAIN d.orders)
    IN  [k \in 1..Len(ids) |-> OrderOut(d, ids[k])]

get_all_order_items(d) ==
    LET ids == Ascending(DOMAIN d.items)
    IN  [k \in 1..Len(ids) |-> ItemDump(d, ids[k])]

export_orders_json(d) ==
    LET all_orders == get_all_orders(d)
        export_data ==
            [k \in 1..Len(all_orders) |->
                [order |-> all_orders[k],
                 items |-> get_order_items_by_order(d,
                                                    all_orders[k].order_id)]]
    IN  [export_date |-> 20250810, total_orders |-> Len(export_data),
         data |-> export_data]

(* The failures of the item routes under an order's path. *)
OrderNotFound == "Order not found"
ItemNotInOrder == "Order item not found in this order"

(* Variant: the item is updated whatever order owns it. *)
update_order_item_in_order_any_owner(d, order_id, order_item_id, item_request) ==
    LET existing_item == get_order_item(d, order_item_id)
    IN  IF get_order(d, order_id) = <<>>
        THEN [db |-> d, ret |-> <<>>, detail |-> OrderNotFound]
        ELSE IF existing_item = <<>>
        THEN [db |-> d, ret |-> <<>>, detail |-> ItemNotInOrder]
        ELSE LET r == update_order_item(d, order_item_id,
                         [order_item_id |-> NoId, order_id |-> order_id,
                          product_id |-> item_request.product_id,
                          quantity |-> item_request.quantity,
                          unit_price |-> item_request.unit_price,
                          line_total |-> <<>>])
             IN  [db |-> r.db, ret |-> r.ret,
                  detail |-> "Failed to update order item"]

update_order_item_in_order(d, order_id, order_item_id, item_request) ==
    LET existing_item == get_order_item(d, order_item_id)
    IN  IF get_order(d, order_id) = <<>>
        THEN [db |-> d, ret |-> <<>>, detail |-> OrderNotFound]
        ELSE IF existing_item = <<>> \/ existing_item[1].order_id # order_id
        THEN [db |-> d, ret |-> <<>>, detail |-> ItemNotInOrder]
        ELSE LET r == update_order_item(d, order_item_id,
                         [order_item_id |-> NoId, order_id |-> order_id,
                          product_id |-> item_request.product_id,
                          quantity |-> item_request.quantity,
                          unit_price |-> item_request.unit_price,
                          line_total |-> <<>>])
             IN  [db |-> r.db, ret |-> r.ret,
                  detail |-> "Failed to update order item"]

(* The SQL export is a list of lines: a fixed preamble, then per order its *)
(* INSERT, the INSERTs of its items and an empty line.  A line is its text *)
(* up to VALUES and the values it lists.                                   *)
SqlLine(text, values) == [text |-> text, values |-> values]

SqlPreamble ==
    <<SqlLine("-- Orders and Order Items Export", <<>>),
      SqlLine("-- Generated on", <<20250810>>),
      SqlLine("", <<>>),
      SqlLine("CREATE TABLE IF NOT EXISTS orders", <<>>),
      SqlLine("", <<>>),
      SqlLine("CREATE TABLE IF NOT EXISTS order_items", <<>>),
      SqlLine("", <<>>),
      SqlLine("-- Data Inserts", <<>>),
      SqlLine("", <<>>)>>

SqlOrderInsert(order) ==
    SqlLine("INSERT INTO orders",
            <<order.order_id, order.customer_id, order.order_date,
              order.total_amount>>)

SqlItemInsert(item) ==
    SqlLine("INSERT INTO order_items",
            <<item.order_item_id, item.order_id, item.product_id,
              item.quantity, item.unit_price, item.line_total>>)

RECURSIVE sql_inserts(_, _, _)
sql_inserts(d, all_orders, k) ==
    IF k > Len(all_orders) THEN <<>>
    ELSE LET its == get_order_items_by_order(d, all_orders[k].order_id)
         IN  <<SqlOrderInsert(all_orders[k])>>
             \o [j \in 1..Len(its) |-> SqlItemInsert(its[j])]
             \o <<SqlLine("", <<>>)>>
             \o sql_inserts(d, all_orders, k + 1)

export_orders_sql(d) ==
    LET sql_statements == SqlPreamble \o sql_inserts(d, get_all_orders(d), 1)
    IN  [export_date |-> 20250810, sql_statements |-> sql_statements]

(* strptime("%Y-%m-%d") on the text of a date: the date, or nothing when   *)
(* the month or the day is out of range.                                   *)
ParseDate(order_date) ==
    IF (order_date \div 100) % 100 \in 1..12 /\ order_date % 100 \in 1..31
    THEN <<order_date>> ELSE <<>>

(* The loop over the requested items: each is stored with the line total   *)
(* quantity * unit_price, which is added to the running total.             *)
RECURSIVE create_requested_items(_, _, _, _, _)
create_requested_items(d, order_id, item_requests, k, total_amount) ==
    IF k > Len(item_requests)
    THEN [db |-> d, total_amount |-> total_amount]
    ELSE LET line_total == item_requests[k].quantity
                           * item_requests[k].unit_price
             r == create_order_item(d,
                     [order_item_id |-> NoId, order_id |-> order_id,
                      product_id |-> item_requests[k].product_id,
                      quantity |-> item_requests[k].quantity,
                      unit_price |-> item_requests[k].unit_price,
                      line_total |-> <<line_total>>])
         IN  create_requested_items(r.db, order_id, item_requests, k + 1,
                                    total_amount + line_total)

create_order_with_items(d, order_request) ==
    LET order_date == ParseDate(order_request.order_date)
    IN  IF order_date = <<>>
        THEN [db |-> d, ret |-> <<>>]
        ELSE LET c == create_order(d,
                         [order_id |-> NoId,
                          customer_id |-> order_request.customer_id,
                          order_date |-> order_date[1], total_amount |-> 0])
                 created_order == c.ret[1]
             IN  IF order_request.items = <<>>
                 THEN [db |-> c.db, ret |-> <<created_order>>]
                 ELSE LET l == create_requested_items(c.db,
                                   created_order.order_id,
                                   order_request.items, 1, 0)
                          u == update_order(l.db, created_order.order_id,
                                   [created_order EXCEPT
                                       !.total_amount = l.total_amount])
                      IN  [db |-> u.db,
                           ret |-> IF u.ret # <<>> THEN u.ret
                                   ELSE <<[created_order EXCEPT
                                       !.total_amount = l.total_amount]>>]

(* Variant: the item only has to exist, whatever order owns it. *)
delete_item_from_order_any_owner(d, order_id, order_item_id) ==
    LET existing_item == get_order_item(d, order_item_id)
    IN  IF get_order(d, order_id) = <<>>
        THEN [db |-> d, ret |-> <<>>, detail |-> OrderNotFound]
        ELSE IF existing_item = <<>>
        THEN [db |-> d, ret |-> <<>>, detail |-> ItemNotInOrder]
        ELSE LET r == delete_order_item(d, order_item_id)
             IN  [db |-> r.db,
                  ret |-> IF r.ret[1] THEN <<TRUE>> ELSE <<>>,
                  detail |-> "Failed to delete order item"]

delete_item_from_order(d, order_id, order_item_id) ==
    LET existing_item == get_order_item(d, order_item_id)
    IN  IF get_order(d, order_id) = <<>>
        THEN [db |-> d, ret |-> <<>>, detail |-> OrderNotFound]
        ELSE IF existing_item = <<>> \/ existing_item[1].order_id # order_id
        THEN [db |-> d, ret |-> <<>>, detail |-> ItemNotInOrder]
        ELSE LET r == delete_order_item(d, order_item_id)
             IN  [db |-> r.db,
                  ret |-> IF r.ret[1] THEN <<TRUE>> ELSE <<>>,
                  detail |-> "Failed to delete order item"]

(* ---------------- reporting ---------------- *)
RECURSIVE SeqSum(_)
SeqSum(s) == IF s = <<>> THEN 0 ELSE Head(s) + SeqSum(Tail(s))

(* round(x / n, 2) *)
RoundDiv(x, n) ==
    LET q == x \div (10 * n)
        r == x % (10 * n)
    IN  IF 2 * r < 10 * n THEN q * 10
        ELSE IF 2 * r > 10 * n THEN (q + 1) * 10
        ELSE IF q % 2 = 0 THEN q * 10 ELSE (q + 1) * 10

Where(all_items, product_id) ==
    SelectSeq(all_items, LAMBDA item : item.product_id = product_id)

(* Variant: a later line of a product replaces the earlier ones. *)
get_order_summary_last_line(d, order_id) ==
    IF get_order(d, order_id) = <<>> THEN <<>>
    ELSE LET its == get_order_items_by_order(d, order_id)
             products == {its[k].product_id : k \in 1..Len(its)}
         IN  <<[order |-> OrderOut(d, order_id),
                items |-> its,
                summary |->
                  [total_items |-> Len(its),
                   total_quantity |->
                       SeqSum([k \in 1..Len(its) |-> its[k].quantity]),
                   total_amount |-> d.orders[order_id].total_amount,
                   item_count_by_product |->
                     [p \in products |->
                        LET mine == Where(its, p)
                        IN  [quantity |-> mine[Len(mine)].quantity,
                             unit_price |-> mine[1].unit_price,
                             total |-> mine[Len(mine)].line_total]]]]>>

get_order_summary(d, order_id) ==
    IF get_order(d, order_id) = <<>> THEN <<>>
    ELSE LET its == get_order_items_by_order(d, order_id)
             products == {its[k].product_id : k \in 1..Len(its)}
         IN  <<[order |-> OrderOut(d, order_id),
                items |-> its,
                summary |->
                  [total_items |-> Len(its),
                   total_quantity |->
                       SeqSum([k \in 1..Len(its) |-> its[k].quantity]),
                   total_amount |-> d.orders[order_id].total_amount,
                   item_count_by_product |->
                     [p \in products |->
                        LET mine == Where(its, p)
                        IN  [quantity |-> SeqSum([k \in 1..Len(mine) |->
                                                     mine[k].quantity]),
                             unit_price |-> mine[1].unit_price,
                             total |-> SeqSum([k \in 1..Len(mine) |->
                                                  mine[k].line_total])]]]]>>

(* Variant: the average is taken per customer. *)
get_database_stats_per_customer(d) ==
    LET all_orders == get_all_orders(d)
        all_items == get_all_order_items(d)
        total_revenue ==
            SeqSum([k \in 1..Len(all_orders) |-> all_orders[k].total_amount])
        customers == {all_orders[k].customer_id : k \in 1..Len(all_orders)}
        products == {all_items[k].product_id : k \in 1..Len(all_items)}
        dates == {all_orders[k].order_date : k \in 1..Len(all_orders)}
    IN  IF all_orders = <<>>
        THEN [total_orders |-> 0, total_items |-> 0, total_revenue |-> 0,
              average_order_value |-> 0, customers |-> <<>>,
              products |-> <<>>]
        ELSE [total_orders |-> Len(all_orders),
              total_items |-> Len(all_items),
              total_revenue |-> Round2(total_revenue),
              average_order_value |->
                  RoundDiv(total_revenue, Cardinality(customers)),
              unique_customers |-> Cardinality(customers),
              unique_products |-> Cardinality(products),
              customer_ids |-> Ascending(customers),
              product_stats |->
                [p \in products |->
                   LET mine == Where(all_items, p)
                   IN  [quantity |-> SeqSum([k \in 1..Len(mine) |->
                                                mine[k].quantity]),
                        revenue |-> Round2(SeqSum([k \in 1..Len(mine) |->
                                                mine[k].line_total]))]],
              date_range |->
                [earliest_order |-> CHOOSE x \in dates : \A y \in dates : x <= y,
                 latest_order |-> SetMax(dates)]]

get_database_stats(d) ==
    LET all_orders == get_all_orders(d)
        all_items == get_all_order_items(d)
        total_revenue ==
            SeqSum([k \in 1..Len(all_orders) |-> all_orders[k].total_amount])
        customers == {all_orders[k].customer_id : k \in 1..Len(all_orders)}
        products == {all_items[k].product_id : k \in 1..Len(all_items)}
        dates == {all_orders[k].order_date : k \in 1..Len(all_orders)}
    IN  IF all_orders = <<>>
        THEN [total_orders |-> 0, total_items |-> 0, total_revenue |-> 0,
              average_order_value |-> 0, customers |-> <<>>,
              products |-> <<>>]
        ELSE [total_orders |-> Len(all_orders),
              total_items |-> Len(all_items),
              total_revenue |-> Round2(total_revenue),
              average_order_value |->
                  RoundDiv(total_revenue, Len(all_orders)),
              unique_customers |-> Cardinality(customers),
              unique_products |-> Cardinality(products),
              customer_ids |-> Ascending(customers),
              product_stats |->
                [p \in products |->
                   LET mine == Where(all_items, p)
                   IN  [quantity |-> SeqSum([k \in 1..Len(mine) |->
                                                mine[k].quantity]),
                        revenue |-> Round2(SeqSum([k \in 1..Len(mine) |->
                                                mine[k].line_total]))]],
              date_range |->
                [earliest_order |-> CHOOSE x \in dates : \A y \in dates : x <= y,
                 latest_order |-> SetMax(dates)]]

get_database_info(d) ==
    LET all_orders == get_all_orders(d)
        all_items == get_all_order_items(d)
        dates == {all_orders[k].order_date : k \in 1..Len(all_orders)}
    IN  IF all_orders = <<>>
        THEN [status |-> "empty", total_orders |-> 0, total_items |-> 0]
        ELSE [status |-> "active", total_orders |-> Len(all_orders),
              total_items |-> Len(all_items),
              total_revenue |->
                  SeqSum([k \in 1..Len(all_orders) |->
                             all_orders[k].total_amount]),
              date_range |->
                [earliest |-> CHOOSE x \in dates : \A y \in dates : x <= y,
                 latest |-> SetMax(dates)],
              customer_count |->
                  Cardinality({all_orders[k].customer_id :
                                  k \in 1..Len(all_orders)}),
              product_count |->
                  Cardinality({all_items[k].product_id :
                                  k \in 1..Len(all_items)})]

(* ---------------- concurrent callers ---------------- *)
(* Two request threads.  calls holds, per thread, the call it is running: *)
(* its name, where it stands, the order whose total it re-derives, the    *)
(* item it works on, the sum it has read, and for an order created with   *)
(* its items the request, the position of the next item, the running      *)
(* total and the order created; once it has returned, whether it          *)
(* succeeded.                                                              *)
Threads == {"a", "b"}

Idle ==
    [op |-> "none", pc |-> "idle", order_id |-> NoId, item |-> NoId,
     total |-> 0, request |-> <<>>, k |-> 0, running |-> 0, ok |-> TRUE,
     j |-> 0, found |-> FALSE, answer |-> <<>>, running_data |-> <<>>,
     orders_due |-> 0, items_due |-> 0]

(* ---------------- steps ---------------- *)
(* One step is one call run to completion.  last records the call: its    *)
(* name, its identifier argument (for a create, the identifier the        *)
(* payload carried), the order an item call was about, whether it         *)
(* returned a record / True, and the rows it changed.  exchange holds the *)
(* document of an import, its response and the positions of the entries  *)
(* it skipped, and is empty after any other call.                         *)
CommitExchange(d, op, arg, order, ok, changes, ex) ==
    /\ orders' = d.orders
    /\ items' = d.items
    /\ order_seq' = d.order_seq
    /\ item_seq' = d.item_seq
    /\ used_order_ids' = used_order_ids \cup DOMAIN d.orders
    /\ used_item_ids' = used_item_ids \cup DOMAIN d.items
    /\ last' = [op |-> op, arg |-> arg, order |-> order, ok |-> ok,
                changes |-> changes]
    /\ exchange' = ex
    /\ calls' = calls
    /\ passed' = passed

Commit(d, op, arg, order, ok, changes) ==
    CommitExchange(d, op, arg, order, ok, changes, <<>>)

Init ==
    /\ orders = <<>>
    /\ items = <<>>
    /\ order_seq = 0
    /\ item_seq = 0
    /\ used_order_ids = {}
    /\ used_item_ids = {}
    /\ last = [op |-> "init", arg |-> NoId, order |-> NoId, ok |-> TRUE,
               changes |-> 0]
    /\ exchange = <<>>
    /\ calls = [t \in Threads |-> Idle]
    /\ passed = {}

Changes(ret) == IF ret # <<>> THEN 1 ELSE 0

CreateOrder(order) ==
    /\ order_seq < MaxOrderId
    /\ LET r == create_order(db, order)
       IN  Commit(r.db, "create_order", order.order_id, NoId, TRUE, 1)

UpdateOrder(order_id, order) ==
    /\ LET r == update_order(db, order_id, order)
       IN  Commit(r.db, "update_order", order_id, NoId, r.ret # <<>>,
                  Changes(r.ret))

DeleteOrder(order_id) ==
    /\ LET r == delete_order(db, order_id)
       IN  Commit(r.db, "delete_order", order_id, NoId, r.ret[1], r.changes)

CreateOrderItem(order_item) ==
    /\ item_seq < MaxItemId
    /\ LET r == create_order_item(db, order_item)
       IN  Commit(r.db, "create_order_item", order_item.order_item_id,
                  order_item.order_id, TRUE, 1)

UpdateOrderItem(order_item_id, order_item) ==
    /\ LET r == update_order_item(db, order_item_id, order_item)
       IN  Commit(r.db, "update_order_item", order_item_id,
                  order_item.order_id, r.ret # <<>>, Changes(r.ret))

DeleteOrderItem(order_item_id) ==
    /\ LET r == delete_order_item(db, order_item_id)
           owner == IF order_item_id \in DOMAIN items
                    THEN items[order_item_id].order_id ELSE NoId
       IN  Commit(r.db, "delete_order_item", order_item_id, owner, r.ret[1],
                  IF r.ret[1] THEN 1 ELSE 0)

AddItemToOrder(order_id, item_request) ==
    /\ get_order(db, order_id) = <<>> \/ item_seq < MaxItemId
    /\ LET r == add_item_to_order(db, order_id, item_request)
       IN  Commit(r.db, "add_item_to_order", order_id, order_id,
                  r.ret # <<>>, Changes(r.ret))

(* What an item route under an order's path answers: 200, or 404 with   *)
(* the reason.                                                           *)
PathResponse(r) ==
    IF r.ret # <<>> THEN <<[status_code |-> 200]>>
    ELSE <<[status_code |-> 404, detail |-> r.detail]>>

UpdateOrderItemInOrder(order_id, order_item_id, item_request) ==
    /\ LET r == update_order_item_in_order(db, order_id, order_item_id,
                                           item_request)
       IN  CommitExchange(r.db, "update_order_item_in_order", order_item_id,
                  order_id, r.ret # <<>>, Changes(r.ret), PathResponse(r))

DeleteItemFromOrder(order_id, order_item_id) ==
    /\ LET r == delete_item_from_order(db, order_id, order_item_id)
       IN  CommitExchange(r.db, "delete_item_from_order", order_item_id,
                  order_id, r.ret # <<>>, Changes(r.ret), PathResponse(r))

CreateOrderWide(order) ==
    /\ order_seq < OrderCap
    /\ LET r == create_order(db, order)
       IN  Commit(r.db, "create_order", order.order_id, NoId, TRUE, 1)

ImportOrdersJson(import_data) ==
    /\ order_seq + DocNeed[import_data].orders <= OrderCap
    /\ item_seq + DocNeed[import_data].items <= MaxItemId
    /\ \E r \in {import_orders_json(db, import_data)} :
          CommitExchange(r.db, "import_orders_json", NoId, NoId, r.ok,
                  (r.db.order_seq - order_seq) + (r.db.item_seq - item_seq),
                  <<[request |-> import_data,
                     response |-> import_response(import_data, r),
                     skipped |-> r.skipped]>>)

CreateOrderWithItems(order_request) ==
    /\ order_seq < OrderCap
    /\ item_seq + Len(order_request.items) <= MaxItemId
    /\ \E r \in {create_order_with_items(db, order_request)} :
          CommitExchange(r.db, "create_order_with_items", NoId,
                  IF r.ret # <<>> THEN r.ret[1].order_id ELSE NoId,
                  r.ret # <<>>,
                  (r.db.order_seq - order_seq) + (r.db.item_seq - item_seq),
                  <<[request |-> order_request, response |-> r.ret]>>)

(* The calls that only read: the answer is kept in exchange. *)
Answer(d, op, arg, response) ==
    CommitExchange(d, op, arg, NoId, TRUE, 0, <<[response |-> response]>>)

GetOrder(order_id) ==
    /\ Answer(db, "get_order", order_id, get_order(db, order_id))

GetAllOrders ==
    /\ Answer(db, "get_all_orders", NoId, get_all_orders(db))

GetOrderItem(order_item_id) ==
    /\ Answer(db, "get_order_item", order_item_id,
              get_order_item(db, order_item_id))

GetAllOrderItems ==
    /\ Answer(db, "get_all_order_items", NoId, get_all_order_items(db))

GetOrderItemsByOrder(order_id) ==
    /\ Answer(db, "get_order_items_by_order", order_id,
              get_order_items_by_order(db, order_id))

(* Variant: the summary refreshes the order's stored total first. *)
GetOrderSummary_refreshing_total(order_id) ==
    /\ Answer(update_order_total(db, order_id), "get_order_summary",
              order_id,
              get_order_summary(update_order_total(db, order_id), order_id))

GetOrderSummary(order_id) ==
    /\ Answer(db, "get_order_summary", order_id,
              get_order_summary(db, order_id))

ExportOrdersJson ==
    /\ Answer(db, "export_orders_json", NoId, export_orders_json(db))

ExportOrdersSql ==
    /\ Answer(db, "export_orders_sql", NoId, export_orders_sql(db))

GetDatabaseStats ==
    /\ Answer(db, "get_database_stats", NoId, get_database_stats(db))

GetDatabaseInfo ==
    /\ Answer(db, "get_database_info", NoId, get_database_info(db))

(* ---------------- steps of concurrent callers ---------------- *)
(* Each connection commits on its own, so a call is a chain of steps that *)
(* other callers may run between: the item statement, then the SELECT of  *)
(* the sum and the UPDATE of the total in _update_order_total.            *)
read_order_total(d, order_id) ==
    Round2(SumLineTotal(d.items, ItemsOf(d.items, order_id)))

(* Variant: the UPDATE takes the sum again when it runs. *)
write_order_total_fresh_sum(d, order_id, total) ==
    IF order_id \in DOMAIN d.orders
    THEN [d EXCEPT !.orders[order_id].total_amount =
                      read_order_total(d, order_id)]
    ELSE d

(* Variant: the total is written with INSERT OR REPLACE. *)
write_order_total_upsert(d, order_id, total) ==
    IF order_id \in DOMAIN d.orders
    THEN [d EXCEPT !.orders[order_id].total_amount = total]
    ELSE [d EXCEPT !.orders =
             Put(d.orders, order_id,
                 [customer_id |-> 0, order_date |-> 0,
                  total_amount |-> total])]

write_order_total(d, order_id, total) ==
    IF order_id \in DOMAIN d.orders
    THEN [d EXCEPT !.orders[order_id].total_amount = total]
    ELSE d

insert_order_item(d, order_item) ==
    LET id == NextRowId(d.item_seq, d.items)
    IN  [d EXCEPT !.items = Put(d.items, id, ItemRow(order_item)),
                  !.item_seq = id]

(* While an export or a statistics report is under way, passed collects  *)
(* the contents the store goes through, from the report's first read on. *)
ReportOps == {"export_orders_json", "get_database_stats"}

Step(d, t, call) ==
    /\ orders' = d.orders
    /\ items' = d.items
    /\ order_seq' = d.order_seq
    /\ item_seq' = d.item_seq
    /\ used_order_ids' = used_order_ids \cup DOMAIN d.orders
    /\ used_item_ids' = used_item_ids \cup DOMAIN d.items
    /\ last' = [op |-> "step", arg |-> NoId, order |-> NoId, ok |-> TRUE,
                changes |-> 0]
    /\ exchange' = <<>>
    /\ calls' = [calls EXCEPT ![t] = call]
    /\ passed' = IF call.op \in ReportOps
                     \/ \E u \in Threads : /\ calls[u].op \in ReportOps
                                            /\ calls[u].pc # "done"
                  THEN passed \cup {[orders |-> d.orders, items |-> d.items]}
                  ELSE passed

Returned(call, ok) == [call EXCEPT !.pc = "done", !.ok = ok]

NoCallYet == \A t \in Threads : calls[t].pc = "idle"

(* create_order_item: INSERT and commit *)
InsertItem(t, order_item) ==
    /\ calls[t].pc = "idle"
    /\ item_seq < MaxItemId
    /\ LET d1 == insert_order_item(db, order_item)
       IN  Step(d1, t, [Idle EXCEPT !.op = "create_order_item",
                                    !.pc = "sum",
                                    !.order_id = order_item.order_id,
                                    !.item = d1.item_seq])

(* update_order_item: UPDATE and commit, or None when no row changed *)
UpdateItemRow(t, order_item_id, order_item) ==
    /\ calls[t].pc = "idle"
    /\ LET call == [Idle EXCEPT !.op = "update_order_item",
                                !.order_id = order_item.order_id,
                                !.item = order_item_id]
       IN  IF order_item_id \notin DOMAIN items
           THEN Step(db, t, Returned(call, FALSE))
           ELSE Step([db EXCEPT !.items[order_item_id] = ItemRow(order_item)],
                     t, [call EXCEPT !.pc = "sum"])

(* delete_order_item: the item is read first, for its order_id *)
FindItem(t, order_item_id) ==
    /\ calls[t].pc = "idle"
    /\ LET order_item == get_order_item(db, order_item_id)
           call == [Idle EXCEPT !.op = "delete_order_item",
                                !.item = order_item_id]
       IN  IF order_item = <<>>
           THEN Step(db, t, Returned(call, FALSE))
           ELSE Step(db, t, [call EXCEPT !.pc = "delete",
                                         !.order_id = order_item[1].order_id])

(* Variant: the DELETE's row count is not looked at. *)
DeleteItemRow_unchecked(t) ==
    /\ calls[t].pc = "delete"
    /\ Step([db EXCEPT !.items = Drop(items, {calls[t].item} \cap DOMAIN items)],
            t, [calls[t] EXCEPT !.pc = "sum"])

(* delete_order_item: DELETE and commit; deleted = a row was changed *)
DeleteItemRow(t) ==
    /\ calls[t].pc = "delete"
    /\ IF calls[t].item \in DOMAIN items
       THEN Step([db EXCEPT !.items = Drop(items, {calls[t].item})], t,
                 [calls[t] EXCEPT !.pc = "sum"])
       ELSE Step(db, t, Returned(calls[t], FALSE))

(* import_orders_json: the loop moves to the next entry that has both   *)
(* keys, and returns after the last entry                                *)
NextEntry(data, k) ==
    LET rest == {n \in k..Len(data) : EntryOk(data[n])}
    IN  IF rest = {} THEN Len(data) + 1
        ELSE CHOOSE n \in rest : \A m \in rest : n <= m

ToEntry(call, k) ==
    IF k > Len(call.request.data) THEN Returned(call, TRUE)
    ELSE [call EXCEPT !.pc = "import_order", !.k = k]

AfterImportedItem(call) ==
    IF call.j <= Len(call.request.data[call.k].items)
    THEN [call EXCEPT !.pc = "import_item"]
    ELSE ToEntry(call, NextEntry(call.request.data, call.k + 1))

(* _update_order_total: SELECT COALESCE(SUM(line_total), 0.0), rounded *)
(* Variant: the sum is taken only when no other call is between its     *)
(* item statement and its UPDATE of the total.                           *)
ReadTotal_waiting(t) ==
    /\ calls[t].pc = "sum"
    /\ \A u \in Threads \ {t} : calls[u].pc \notin {"sum", "write"}
    /\ Step(db, t, [calls[t] EXCEPT
                       !.pc = "write",
                       !.total = read_order_total(db, calls[t].order_id)])

ReadTotal(t) ==
    /\ calls[t].pc = "sum"
    /\ Step(db, t, [calls[t] EXCEPT
                       !.pc = "write",
                       !.total = read_order_total(db, calls[t].order_id)])

(* _update_order_total: UPDATE orders SET total_amount, and commit *)
WriteTotal(t) ==
    /\ calls[t].pc = "write"
    /\ LET d1 == write_order_total(db, calls[t].order_id, calls[t].total)
       IN  IF calls[t].op = "import_orders_json"
           THEN Step(d1, t, AfterImportedItem(calls[t]))
           ELSE IF calls[t].op # "create_order_with_items"
           THEN Step(d1, t, Returned(calls[t], TRUE))
           ELSE IF calls[t].k <= Len(calls[t].request.items)
           THEN Step(d1, t, [calls[t] EXCEPT !.pc = "insert"])
           ELSE Step(d1, t, [calls[t] EXCEPT !.pc = "update_order"])

(* create_order_with_items: the date is parsed and the order created with *)
(* total 0; without items the call returns it                             *)
InsertOrder(t, order_request) ==
    /\ calls[t].pc = "idle"
    /\ order_seq < OrderCap
    /\ item_seq + Len(order_request.items) <= MaxItemId
    /\ LET order_date == ParseDate(order_request.order_date)
           call == [Idle EXCEPT !.op = "create_order_with_items",
                                !.request = order_request, !.k = 1]
       IN  IF order_date = <<>>
           THEN Step(db, t, Returned(call, FALSE))
           ELSE LET c == create_order(db,
                            [order_id |-> NoId,
                             customer_id |-> order_request.customer_id,
                             order_date |-> order_date[1],
                             total_amount |-> 0])
                    mine == [call EXCEPT !.order_id = c.ret[1].order_id]
                IN  IF order_request.items = <<>>
                    THEN Step(c.db, t, Returned(mine, TRUE))
                    ELSE Step(c.db, t, [mine EXCEPT !.pc = "insert"])

(* create_order_with_items: the next requested item goes to                *)
(* create_order_item with line_total = quantity * unit_price               *)
InsertRequestedItem(t) ==
    /\ calls[t].pc = "insert"
    /\ item_seq < MaxItemId
    /\ LET item_request == calls[t].request.items[calls[t].k]
           line_total == item_request.quantity * item_request.unit_price
           d1 == insert_order_item(db,
                    [order_item_id |-> NoId, order_id |-> calls[t].order_id,
                     product_id |-> item_request.product_id,
                     quantity |-> item_request.quantity,
                     unit_price |-> item_request.unit_price,
                     line_total |-> <<line_total>>])
       IN  Step(d1, t, [calls[t] EXCEPT
                           !.pc = "sum", !.item = d1.item_seq,
                           !.k = calls[t].k + 1,
                           !.running = calls[t].running + line_total])

(* create_order_with_items: the item's INSERT raises, the handler answers *)
(* 400 and what the earlier statements committed stays                    *)
FailRequestedItem(t) ==
    /\ calls[t].pc = "insert"
    /\ Step(db, t, Returned(calls[t], FALSE))

(* create_order_with_items: update_order with the running total *)
StoreRunningTotal(t) ==
    /\ calls[t].pc = "update_order"
    /\ LET u == update_order(db, calls[t].order_id,
                    [order_id |-> calls[t].order_id,
                     customer_id |-> calls[t].request.customer_id,
                     order_date |-> calls[t].request.order_date,
                     total_amount |-> calls[t].running])
       IN  Step(u.db, t, Returned(calls[t], TRUE))

(* The rows the calls under way have yet to insert: a call starts only  *)
(* when the identifiers left cover its rows and theirs.                  *)
RECURSIVE Total(_, _)
Total(f, S) ==
    IF S = {} THEN 0
    ELSE LET x == CHOOSE y \in S : TRUE IN f[x] + Total(f, S \ {x})

Room(new_orders, new_items) ==
    LET under_way == {t \in Threads : calls[t].pc \notin {"idle", "done"}}
    IN  /\ order_seq + new_orders
              + Total([t \in Threads |-> calls[t].orders_due], under_way)
              <= OrderCap
        /\ item_seq + new_items
              + Total([t \in Threads |-> calls[t].items_due], under_way)
              <= MaxItemId

(* add_item_to_order: the order is looked up; 404 when it is missing *)
CheckOrder(t, order_id, item_request) ==
    /\ calls[t].pc = "idle"
    /\ LET call == [Idle EXCEPT !.op = "add_item_to_order",
                                !.order_id = order_id,
                                !.request = item_request]
       IN  IF get_order(db, order_id) = <<>>
           THEN Step(db, t, Returned(call, FALSE))
           ELSE /\ Room(0, 1)
                /\ Step(db, t, [call EXCEPT !.pc = "add", !.items_due = 1])

(* add_item_to_order: create_order_item's INSERT and commit *)
InsertCheckedItem(t) ==
    /\ calls[t].pc = "add"
    /\ LET item_request == calls[t].request
           d1 == insert_order_item(db,
                    [order_item_id |-> NoId, order_id |-> calls[t].order_id,
                     product_id |-> item_request.product_id,
                     quantity |-> item_request.quantity,
                     unit_price |-> item_request.unit_price,
                     line_total |-> <<>>])
       IN  Step(d1, t, [calls[t] EXCEPT !.pc = "sum", !.item = d1.item_seq,
                                        !.items_due = 0])

(* delete_order: both DELETEs and the commit, on one connection *)
DeleteOrderRows(t, order_id) ==
    /\ calls[t].pc = "idle"
    /\ LET r == delete_order(db, order_id)
           call == [Idle EXCEPT !.op = "delete_order",
                                !.order_id = order_id,
                                !.found = order_id \in DOMAIN orders]
       IN  Step(r.db, t, Returned(call, r.ret[1]))

(* import_orders_json: 400 without "data"; else the loop starts *)
StartImport(t, import_data) ==
    /\ calls[t].pc = "idle"
    /\ LET call == [Idle EXCEPT !.op = "import_orders_json",
                                !.request = import_data]
       IN  IF "data" \notin DOMAIN import_data
           THEN Step(db, t, Returned(call, FALSE))
           ELSE /\ Room(DocNeed[import_data].orders,
                        DocNeed[import_data].items)
                /\ Step(db, t,
                        ToEntry([call EXCEPT
                                   !.orders_due = DocNeed[import_data].orders,
                                   !.items_due = DocNeed[import_data].items],
                                NextEntry(import_data.data, 1)))

(* import_orders_json: the entry's order is created with total 0 *)
ImportOrder(t) ==
    /\ calls[t].pc = "import_order"
    /\ LET order_info == calls[t].request.data[calls[t].k].order
           c == create_order(db,
                   [order_id |-> NoId, customer_id |-> order_info.customer_id,
                    order_date |-> order_info.order_date, total_amount |-> 0])
       IN  Step(c.db, t,
                AfterImportedItem([calls[t] EXCEPT
                                     !.order_id = c.ret[1].order_id,
                                     !.j = 1,
                                     !.orders_due = calls[t].orders_due - 1]))

(* import_orders_json: the entry's next item goes to create_order_item;  *)
(* an item without a key raises KeyError and the handler answers 400     *)
ImportItem(t) ==
    /\ calls[t].pc = "import_item"
    /\ LET item_info == calls[t].request.data[calls[t].k].items[calls[t].j]
       IN  IF ~ItemInfoOk(item_info)
           THEN Step(db, t, Returned(calls[t], FALSE))
           ELSE LET d1 == insert_order_item(db,
                             [order_item_id |-> NoId,
                              order_id |-> calls[t].order_id,
                              product_id |-> item_info.product_id,
                              quantity |-> item_info.quantity,
                              unit_price |-> item_info.unit_price,
                              line_total |-> <<>>])
                IN  Step(d1, t, [calls[t] EXCEPT
                                    !.pc = "sum", !.item = d1.item_seq,
                                    !.j = calls[t].j + 1,
                                    !.items_due = calls[t].items_due - 1])

(* export_orders_json: the orders are listed *)
ReadOrders(t) ==
    /\ calls[t].pc = "idle"
    /\ LET all_orders == get_all_orders(db)
           call == [Idle EXCEPT !.op = "export_orders_json",
                                !.request = all_orders, !.k = 1]
       IN  IF all_orders = <<>>
           THEN Step(db, t, Returned([call EXCEPT !.answer =
                              <<[export_date |-> 20250810, total_orders |-> 0,
                                 data |-> <<>>]>>], TRUE))
           ELSE Step(db, t, [call EXCEPT !.pc = "export_items"])

(* export_orders_json: the next listed order's items are read; after the *)
(* last order the document is returned                                    *)
ReadItems(t) ==
    /\ calls[t].pc = "export_items"
    /\ LET order == calls[t].request[calls[t].k]
           export_data ==
               Append(calls[t].running_data,
                      [order |-> order,
                       items |-> get_order_items_by_order(db, order.order_id)])
       IN  IF calls[t].k < Len(calls[t].request)
           THEN Step(db, t, [calls[t] EXCEPT !.k = calls[t].k + 1,
                                             !.running_data = export_data])
           ELSE Step(db, t, Returned([calls[t] EXCEPT
                              !.running_data = <<>>,
                              !.answer =
                                <<[export_date |-> 20250810,
                                   total_orders |-> Len(export_data),
                                   data |-> export_data]>>], TRUE))

(* get_database_stats: the orders are listed *)
ReadOrdersForStats(t) ==
    /\ calls[t].pc = "idle"
    /\ Step(db, t, [Idle EXCEPT !.op = "get_database_stats",
                                !.pc = "stats_items",
                                !.request = orders])

(* get_database_stats: the items are listed and the figures computed     *)
(* from the two lists                                                     *)
ReadItemsForStats(t) ==
    /\ calls[t].pc = "stats_items"
    /\ Step(db, t, Returned([calls[t] EXCEPT
                       !.request = <<>>,
                       !.answer =
                         <<get_database_stats(
                             [db EXCEPT !.orders = calls[t].request])>>],
                     TRUE))

Next ==
    \/ \E order \in OrderCreatePayloads : CreateOrder(order)
    \/ \E order_id \in OrderRefs, order \in OrderPayloads :
          UpdateOrder(order_id, order)
    \/ \E order_id \in OrderRefs : DeleteOrder(order_id)
    \/ \E order_item \in OrderItemCreatePayloads : CreateOrderItem(order_item)
    \/ \E order_item_id \in ItemRefs, order_item \in OrderItemPayloads :
          UpdateOrderItem(order_item_id, order_item)
    \/ \E order_item_id \in ItemRefs : DeleteOrderItem(order_item_id)
    \/ \E order_id \in OrderRefs, item_request \in OrderItemRequests :
          AddItemToOrder(order_id, item_request)
    \/ \E order_id \in OrderRefs, order_item_id \in ItemRefs,
          item_request \in OrderItemRequests :
          UpdateOrderItemInOrder(order_id, order_item_id, item_request)

Spec == Init /\ [][Next]_vars

(* The import next to the store calls that prepare its starting states:  *)
(* orders, items (also items naming an order that does not exist yet)    *)
(* and deletions, which leave gaps in the identifiers.                   *)
PlainOrderPayloads ==
    {o \in OrderPayloads : o.customer_id = 101 /\ o.total_amount = 0}
StoredItemPayloads ==
    [order_item_id : {NoId}, order_id : WideOrderRefs, product_id : Products,
     quantity : {1}, unit_price : UnitPrices, line_total : {<<>>}]

NextImport ==
    \/ \E order \in PlainOrderPayloads : CreateOrderWide(order)
    \/ \E order_item \in StoredItemPayloads : CreateOrderItem(order_item)
    \/ \E order_id \in WideOrderRefs : DeleteOrder(order_id)
    \/ \E import_data \in ImportDocs : ImportOrdersJson(import_data)

ImportSpec == Init /\ [][NextImport]_vars

(* Two orders created with total 0 and the item calls of the store, whose *)
(* payloads may name either order.                                        *)
MovedItemPayloads ==
    StoredItemPayloads
    \cup
    [order_item_id : {NoId}, order_id : WideOrderRefs, product_id : Products,
     quantity : {2}, unit_price : UnitPrices,
     line_total : {<<t>> : t \in ExplicitLineTotals}]

NextMove ==
    \/ \E order \in PlainOrderPayloads : CreateOrderWide(order)
    \/ \E order_item \in MovedItemPayloads : CreateOrderItem(order_item)
    \/ \E order_item_id \in ItemRefs, order_item \in MovedItemPayloads :
          UpdateOrderItem(order_item_id, order_item)
    \/ \E order_item_id \in ItemRefs : DeleteOrderItem(order_item_id)

MoveSpec == Init /\ [][NextMove]_vars

(* Reporting, the exports and the get/list calls over stores built by    *)
(* orders created with their items, items stored under any order id and  *)
(* order deletions.                                                       *)
OrderWithItemsRequests ==
    [customer_id : {101}, order_date : Dates,
     items : SeqsUpTo(OrderItemRequests, MaxItemId)]

ExplicitItemPayloads ==
    [order_item_id : {NoId}, order_id : WideOrderRefs, product_id : Products,
     quantity : {2}, unit_price : UnitPrices,
     line_total : {<<t>> : t \in ExplicitLineTotals}]

NextReport ==
    \/ \E order_request \in OrderWithItemsRequests :
          CreateOrderWithItems(order_request)
    \/ \E order_item \in ExplicitItemPayloads : CreateOrderItem(order_item)
    \/ \E order_id \in WideOrderRefs : DeleteOrder(order_id)
    \/ \E order_id \in WideOrderRefs : GetOrder(order_id)
    \/ GetAllOrders
    \/ \E order_item_id \in ItemRefs : GetOrderItem(order_item_id)
    \/ GetAllOrderItems
    \/ \E order_id \in WideOrderRefs : GetOrderItemsByOrder(order_id)
    \/ \E order_id \in WideOrderRefs : GetOrderSummary(order_id)
    \/ ExportOrdersJson
    \/ ExportOrdersSql
    \/ GetDatabaseStats
    \/ GetDatabaseInfo

ReportSpec == Init /\ [][NextReport]_vars

(* The item routes under an order's path, over two orders. *)
PathItemRequests ==
    [product_id : Products, quantity : {1, 2}, unit_price : UnitPrices]

NextPath ==
    \/ \E order \in PlainOrderPayloads : CreateOrderWide(order)
    \/ \E order_id \in WideOrderRefs, item_request \in PathItemRequests :
          AddItemToOrder(order_id, item_request)
    \/ \E order_id \in WideOrderRefs, order_item_id \in ItemRefs,
          item_request \in PathItemRequests :
          UpdateOrderItemInOrder(order_id, order_item_id, item_request)
    \/ \E order_id \in WideOrderRefs, order_item_id \in ItemRefs :
          DeleteItemFromOrder(order_id, order_item_id)

PathSpec == Init /\ [][NextPath]_vars

(* Two callers at once, each running one item call or one order created  *)
(* with its items, on a store prepared by calls that ran alone.           *)
NextRace ==
    \/ NoCallYet /\ \E order \in PlainOrderPayloads : CreateOrderWide(order)
    \/ NoCallYet /\ \E order_item \in StoredItemPayloads :
          CreateOrderItem(order_item)
    \/ \E t \in Threads, order_item \in StoredItemPayloads :
          InsertItem(t, order_item)
    \/ \E t \in Threads, order_item_id \in ItemRefs,
          order_item \in ExplicitItemPayloads :
          UpdateItemRow(t, order_item_id, order_item)
    \/ \E t \in Threads, order_item_id \in ItemRefs :
          FindItem(t, order_item_id)
    \/ \E t \in Threads : DeleteItemRow(t)
    \/ \E t \in Threads : ReadTotal(t)
    \/ \E t \in Threads : WriteTotal(t)
    \/ \E t \in Threads, order_request \in OrderWithItemsRequests :
          InsertOrder(t, order_request)
    \/ \E t \in Threads : InsertRequestedItem(t)
    \/ \E t \in Threads : FailRequestedItem(t)
    \/ \E t \in Threads : StoreRunningTotal(t)

RaceSpec == Init /\ [][NextRace]_vars

(* The item calls with every quantity and unit price the models accept:  *)
(* OrderItem and OrderItemRequest declare a plain int and a plain float.  *)
AnyQuantities == {0, 1}
AnyUnitPrices == {-125, 125}

AnyItemPayloads ==
    [order_item_id : {NoId}, order_id : OrderRefs, product_id : Products,
     quantity : AnyQuantities, unit_price : AnyUnitPrices,
     line_total : {<<>>}]

AnyItemRequests ==
    [product_id : Products, quantity : AnyQuantities,
     unit_price : AnyUnitPrices]

AnyOrderWithItemsRequests ==
    [customer_id : {101}, order_date : Dates,
     items : SeqsUpTo(AnyItemRequests, 1)]

NextAnyValue ==
    \/ \E order \in PlainOrderPayloads : CreateOrderWide(order)
    \/ \E order_item \in AnyItemPayloads : CreateOrderItem(order_item)
    \/ \E order_item_id \in ItemRefs, order_item \in AnyItemPayloads :
          UpdateOrderItem(order_item_id, order_item)
    \/ \E order_id \in OrderRefs, item_request \in AnyItemRequests :
          AddItemToOrder(order_id, item_request)
    \/ \E order_request \in AnyOrderWithItemsRequests :
          CreateOrderWithItems(order_request)

AnyValueSpec == Init /\ [][NextAnyValue]_vars

(* The order summary over two orders whose items name two products. *)
NextSummary ==
    \/ \E order \in PlainOrderPayloads : CreateOrderWide(order)
    \/ \E order_id \in WideOrderRefs,
          item_request \in [product_id : {501, 502}, quantity : {1, 2},
                            unit_price : UnitPrices] :
          AddItemToOrder(order_id, item_request)
    \/ \E order_item_id \in ItemRefs : DeleteOrderItem(order_item_id)
    \/ \E order_id \in WideOrderRefs : GetOrderSummary(order_id)

SummarySpec == Init /\ [][NextSummary]_vars

(* The router's calls that create, change or remove items: the item     *)
(* routes under an order's path, orders created with their items, the   *)
(* import (of documents of at most one entry) and the deletion of an    *)
(* order.                                                                *)
RouterDocs == {[data |-> q] : q \in SeqsUpTo(ImportEntries, 1)}

RouterItemRequests ==
    [product_id : Products, quantity : {1, 4}, unit_price : UnitPrices]

NextRouter ==
    \/ \E order \in PlainOrderPayloads : CreateOrderWide(order)
    \/ \E order_id \in WideOrderRefs, item_request \in RouterItemRequests :
          AddItemToOrder(order_id, item_request)
    \/ \E order_id \in WideOrderRefs, order_item_id \in ItemRefs,
          item_request \in RouterItemRequests :
          UpdateOrderItemInOrder(order_id, order_item_id, item_request)
    \/ \E order_id \in WideOrderRefs, order_item_id \in ItemRefs :
          DeleteItemFromOrder(order_id, order_item_id)
    \/ \E order_request \in OrderWithItemsRequests :
          CreateOrderWithItems(order_request)
    \/ \E import_data \in RouterDocs : ImportOrdersJson(import_data)
    \/ \E order_id \in WideOrderRefs : DeleteOrder(order_id)

RouterSpec == Init /\ [][NextRouter]_vars

(* Two callers at once on a store built by calls that ran alone (orders *)
(* and items added to existing orders): items added to an order, and     *)
(* orders and items deleted, and documents of at most one entry         *)
(* imported.                                                             *)
NextDeleteRace ==
    \/ NoCallYet /\ \E order \in PlainOrderPayloads : CreateOrderWide(order)
    \/ NoCallYet /\ \E order_id \in WideOrderRefs,
                        item_request \in OrderItemRequests :
          AddItemToOrder(order_id, item_request)
    \/ \E t \in Threads, order_id \in WideOrderRefs,
          item_request \in OrderItemRequests :
          CheckOrder(t, order_id, item_request)
    \/ \E t \in Threads : InsertCheckedItem(t)
    \/ \E t \in Threads, order_id \in WideOrderRefs :
          DeleteOrderRows(t, order_id)
    \/ \E t \in Threads, order_item_id \in ItemRefs :
          FindItem(t, order_item_id)
    \/ \E t \in Threads : DeleteItemRow(t)
    \/ \E t \in Threads : ReadTotal(t)
    \/ \E t \in Threads : WriteTotal(t)
    \/ \E t \in Threads,
          import_data \in RouterDocs \cup {[export_date |-> 20250810]} :
          StartImport(t, import_data)
    \/ \E t \in Threads : ImportOrder(t)
    \/ \E t \in Threads : ImportItem(t)

DeleteRaceSpec == Init /\ [][NextDeleteRace]_vars

(* An export or a statistics report taken by one caller while the other *)
(* adds an item to an order or deletes an order.                         *)
NextSnapshot ==
    \/ NoCallYet /\ \E order \in PlainOrderPayloads : CreateOrderWide(order)
    \/ NoCallYet /\ \E order_id \in WideOrderRefs,
                        item_request \in OrderItemRequests :
          AddItemToOrder(order_id, item_request)
    \/ \E t \in Threads : ReadOrders(t)
    \/ \E t \in Threads : ReadItems(t)
    \/ \E t \in Threads : ReadOrdersForStats(t)
    \/ \E t \in Threads : ReadItemsForStats(t)
    \/ \E t \in Threads, order_id \in WideOrderRefs,
          item_request \in OrderItemRequests :
          CheckOrder(t, order_id, item_request)
    \/ \E t \in Threads : InsertCheckedItem(t)
    \/ \E t \in Threads : ReadTotal(t)
    \/ \E t \in Threads : WriteTotal(t)
    \/ \E t \in Threads, order_id \in WideOrderRefs :
          DeleteOrderRows(t, order_id)

SnapshotSpec == Init /\ [][NextSnapshot]_vars

(* Two callers under fair scheduling: a caller that has started a call  *)
(* takes its next step eventually.  The calls are the item calls of the  *)
(* store and of the router, delete_order, the import, the export and the *)
(* statistics report; they start on the store left by the creation of    *)
(* order 1 and the addition of one item to it.                           *)
Continue(t) ==
    \/ InsertCheckedItem(t)
    \/ DeleteItemRow(t)
    \/ ReadTotal(t)
    \/ WriteTotal(t)
    \/ ImportOrder(t)
    \/ ImportItem(t)
    \/ ReadItems(t)
    \/ ReadItemsForStats(t)

FairInit ==
    /\ orders = <<[customer_id |-> 101, order_date |-> 20250810,
                   total_amount |-> 120]>>
    /\ items = <<[order_id |-> 1, product_id |-> 501, quantity |-> 1,
                  unit_price |-> 125, line_total |-> 120]>>
    /\ order_seq = 1
    /\ item_seq = 1
    /\ used_order_ids = {1}
    /\ used_item_ids = {1}
    /\ last = [op |-> "add_item_to_order", arg |-> 1, order |-> 1,
               ok |-> TRUE, changes |-> 1]
    /\ exchange = <<>>
    /\ calls = [t \in Threads |-> Idle]
    /\ passed = {}

FairDocs ==
    {[data |-> <<[order |-> OrderInfo],
                 [order |-> OrderInfo, items |-> <<GoodItemInfo>>]>>],
     [data |-> <<[order |-> OrderInfo,
                  items |-> <<GoodItemInfo, BadItemInfo>>]>>],
     [export_date |-> 20250810]}

NextFair ==
    \/ \E t \in Threads, order_id \in {1, 2},
          item_request \in OrderItemRequests :
          CheckOrder(t, order_id, item_request)
    \/ \E t \in Threads, order_item_id \in ItemRefs,
          order_item \in {p \in ExplicitItemPayloads : p.order_id = 1} :
          UpdateItemRow(t, order_item_id, order_item)
    \/ \E t \in Threads, order_item_id \in ItemRefs :
          FindItem(t, order_item_id)
    \/ \E t \in Threads, order_id \in {1, 2} :
          DeleteOrderRows(t, order_id)
    \/ \E t \in Threads, import_data \in FairDocs :
          StartImport(t, import_data)
    \/ \E t \in Threads : ReadOrders(t)
    \/ \E t \in Threads : ReadOrdersForStats(t)
    \/ \E t \in Threads : Continue(t)

FairSpec ==
    FairInit /\ [][NextFair]_vars /\ \A t \in Threads : WF_vars(Continue(t))

(* ---------------- properties ---------------- *)
ItemOps ==
    {"create_order_item", "add_item_to_order", "update_order_item",
     "delete_order_item"}

TotalOfItems(its, order_id) ==
    Round2(SumLineTotal(its, ItemsOf(its, order_id)))

StoreUnchanged == UNCHANGED <<orders, items, order_seq, item_seq>>

(* C1: after an item create, update or delete against an order O that ran  *)
(* to completion, O's stored total_amount is the sum of line_total over    *)
(* the items O owns, rounded to 2 decimals (0 when O owns none).           *)
C1_TotalAfterItemOp ==
    (last.op \in ItemOps /\ last.ok /\ last.order \in DOMAIN orders)
        => orders[last.order].total_amount = TotalOfItems(items, last.order)

C1_Witness ==
    /\ last.op \in ItemOps
    /\ last.ok
    /\ last.order \in DOMAIN orders
    /\ Cardinality(ItemsOf(items, last.order)) = 2
    /\ SumLineTotal(items, ItemsOf(items, last.order)) % 10 # 0
    /\ orders[last.order].total_amount > 0

(* C2: in every reachable state every stored item's order_id is the id of  *)
(* an order that exists.                                                   *)
C2_ItemsReferenceOrders ==
    \A i \in DOMAIN items : items[i].order_id \in DOMAIN orders

(* C3: after delete_order(id) succeeds the order is absent, no item has    *)
(* order_id = id, and a lookup of the order or of an item that belonged    *)
(* to it finds nothing.                                                    *)
C3_DeleteOrderCascades ==
    [][(last'.op = "delete_order" /\ last'.ok)
         => /\ last'.arg \notin DOMAIN orders'
            /\ ItemsOf(items', last'.arg) = {}
            /\ get_order(db', last'.arg) = <<>>
            /\ \A i \in ItemsOf(items, last'.arg) :
                  get_order_item(db', i) = <<>>]_vars

C3_Witness ==
    /\ last.op = "delete_order"
    /\ last.ok
    /\ last.changes = MaxItemId + 1
    /\ orders = <<>>
    /\ items = <<>>

(* C4: creating an item whose order_id names no existing order fails and   *)
(* leaves the stored items unchanged.                                      *)
C4_CreateForMissingOrderFails ==
    [][(/\ last'.op \in {"create_order_item", "add_item_to_order"}
        /\ last'.order \notin DOMAIN orders)
         => (~last'.ok /\ items' = items)]_vars

(* C5: immediately after an order creation the new order's stored          *)
(* total_amount is 0, whatever total the payload carried.                  *)
C5_NewOrderTotalZero ==
    last.op = "create_order" => orders[order_seq].total_amount = 0

(* C6: update_order on an existing order stores exactly the supplied       *)
(* customer, date and total_amount (no recomputation of the total) and     *)
(* leaves every item unchanged.                                            *)
C6_UpdateOrderStoresSupplied ==
    [][\A order_id \in OrderRefs, order \in OrderPayloads :
         (UpdateOrder(order_id, order) /\ order_id \in DOMAIN orders)
           => /\ last'.ok
              /\ orders' = [orders EXCEPT ![order_id] =
                    [customer_id |-> order.customer_id,
                     order_date |-> order.order_date,
                     total_amount |-> order.total_amount]]
              /\ items' = items]_vars

C6_Witness ==
    /\ last.op = "update_order"
    /\ last.ok
    /\ ItemsOf(items, last.arg) # {}
    /\ orders[last.arg].total_amount # TotalOfItems(items, last.arg)

C8_MissingIdIsAbsent ==
    [][/\ \A order_id \in OrderRefs \ DOMAIN orders :
            get_order(db, order_id) = <<>>
       /\ \A order_item_id \in ItemRefs \ DOMAIN items :
            get_order_item(db, order_item_id) = <<>>
       /\ (last'.op = "update_order" /\ last'.arg \notin DOMAIN orders)
            => (~last'.ok /\ StoreUnchanged)
       /\ (last'.op = "update_order_item" /\ last'.arg \notin DOMAIN items)
            => (~last'.ok /\ StoreUnchanged)]_vars

C8_Witness ==
    /\ last.op = "update_order_item"
    /\ ~last.ok
    /\ last.order \in DOMAIN orders
    /\ ItemsOf(items, last.order) # {}
    /\ orders[last.order].total_amount # TotalOfItems(items, last.order)

(* C9: delete_order(id) returns success exactly when an order with that    *)
(* id existed before the call; on failure the store is unchanged.          *)
C9_DeleteOrderFlag ==
    [][last'.op = "delete_order"
         => /\ last'.ok <=> last'.arg \in DOMAIN orders
            /\ ~last'.ok => StoreUnchanged]_vars

(* C10: delete_order_item(id) returns failure and changes nothing when no  *)
(* item has that id; otherwise it returns success, removes exactly that    *)
(* item and sets the owning order's total to the sum of the remaining      *)
(* items' line totals.                                                     *)
C10_DeleteOrderItem ==
    [][last'.op = "delete_order_item"
         => IF last'.arg \notin DOMAIN items
            THEN ~last'.ok /\ StoreUnchanged
            ELSE LET owner == items[last'.arg].order_id
                 IN  /\ last'.ok
                     /\ items' = Drop(items, {last'.arg})
                     /\ order_seq' = order_seq /\ item_seq' = item_seq
                     /\ orders' =
                          IF owner \in DOMAIN orders
                          THEN [orders EXCEPT ![owner].total_amount =
                                  TotalOfItems(items', owner)]
                          ELSE orders]_vars

C10_Witness ==
    /\ last.op = "delete_order_item"
    /\ last.ok
    /\ last.order \in DOMAIN orders
    /\ ItemsOf(items, last.order) # {}
    /\ orders[last.order].total_amount = TotalOfItems(items, last.order)
    /\ orders[last.order].total_amount > 0

(* C11: on every item create and every item update the stored line total  *)
(* is the payload's line total when it supplies one and quantity x unit    *)
(* price rounded to 2 decimals otherwise; an update through the router     *)
(* stores the new quantity and unit price and the line total derived from  *)
(* them, never the previous one.                                           *)
SuppliedOrDerived(order_item) ==
    IF order_item.line_total # <<>> THEN order_item.line_total[1]
    ELSE Round2(order_item.quantity * order_item.unit_price)

C11_LineTotalStored ==
    [][/\ last'.op = "create_order_item" =>
            \A order_item \in OrderItemCreatePayloads :
               CreateOrderItem(order_item) =>
                  \A id \in DOMAIN items' \ DOMAIN items :
                     items'[id].line_total = SuppliedOrDerived(order_item)
       /\ (last'.op = "update_order_item" /\ last'.ok) =>
            \A order_item \in OrderItemPayloads :
               UpdateOrderItem(last'.arg, order_item) =>
                  items'[last'.arg].line_total = SuppliedOrDerived(order_item)
       /\ (last'.op = "add_item_to_order" /\ last'.ok) =>
            \A item_request \in OrderItemRequests :
               AddItemToOrder(last'.arg, item_request) =>
                  \A id \in DOMAIN items' \ DOMAIN items :
                     items'[id].line_total =
                        Round2(item_request.quantity * item_request.unit_price)
       /\ (last'.op = "update_order_item_in_order" /\ last'.ok) =>
            \A item_request \in OrderItemRequests :
               UpdateOrderItemInOrder(last'.order, last'.arg, item_request) =>
                  /\ items'[last'.arg].quantity = item_request.quantity
                  /\ items'[last'.arg].unit_price = item_request.unit_price
                  /\ items'[last'.arg].line_total =
                        Round2(item_request.quantity * item_request.unit_price)
      ]_vars

(* The router has updated an item of an order that holds a second item    *)
(* with a supplied line total: the updated one carries the derived 0.12.  *)
C11_Witness ==
    /\ last.op = "update_order_item_in_order" /\ last.ok
    /\ items[last.arg].quantity = 1
    /\ items[last.arg].line_total = 120
    /\ \E id \in DOMAIN items : id # last.arg /\ items[id].line_total = 124

(* C12: when update_order_item moves an item from order A to another      *)
(* order B, both existing, then after the update A's total and B's total   *)
(* both equal the rounded sums of their current items' line totals.        *)
C12_MoveRecomputesBoth ==
    [][(last'.op = "update_order_item" /\ last'.ok) =>
          LET A == items[last'.arg].order_id
              B == last'.order
          IN  (A # B /\ A \in DOMAIN orders /\ B \in DOMAIN orders) =>
                 /\ orders'[A].total_amount = TotalOfItems(items', A)
                 /\ orders'[B].total_amount = TotalOfItems(items', B)
      ]_vars

(* C13: for every valid entry of an imported document, the order created  *)
(* for it ends with a total equal to the sum over the entry's items of     *)
(* quantity x unit price rounded to 2 decimals, whatever total the entry   *)
(* supplied.  The k-th valid entry makes the k-th new order.               *)
RECURSIVE SumDerived(_, _)
SumDerived(item_infos, k) ==
    IF k > Len(item_infos) THEN 0
    ELSE Round2(item_infos[k].quantity * item_infos[k].unit_price)
         + SumDerived(item_infos, k + 1)

EntryTotal(order_data) == Round2(SumDerived(order_data.items, 1))

C13_ImportedTotalFromItems ==
    [][(last'.op = "import_orders_json" /\ last'.ok) =>
          LET valid == SelectSeq(exchange'[1].request.data, EntryOk)
              created == Ascending(DOMAIN orders' \ DOMAIN orders)
          IN  \A k \in 1..Len(valid) :
                 orders'[created[k]].total_amount = EntryTotal(valid[k])
      ]_vars

(* C14: the import of a document without a "data" field fails with the    *)
(* format error and leaves the store as it was: no order and no item is    *)
(* created.                                                                *)
DocsWithoutData == {import_data \in ImportDocs : "data" \notin DOMAIN import_data}

C14_MissingDataLeavesStore ==
    [][\A import_data \in DocsWithoutData :
          ImportOrdersJson(import_data) =>
             /\ ~last'.ok
             /\ exchange'[1].response =
                   [status_code |-> 400, detail |-> MissingData]
             /\ StoreUnchanged
      ]_vars

(* A store holding an order and an item has refused such a document. *)
C14_Witness ==
    /\ last.op = "import_orders_json" /\ ~last.ok /\ last.changes = 0
    /\ exchange[1].response.status_code = 400
    /\ exchange[1].response.detail = MissingData
    /\ orders # <<>> /\ items # <<>>

(* C15: an entry without an "order" or without an "items" field is        *)
(* skipped: an import that passes over such entries and runs to its end    *)
(* creates and counts exactly the orders and items of the other entries,   *)
(* wherever in the document the skipped entries stand.                     *)
SkippedPositions(data) ==
    SelectSeq([k \in 1..Len(data) |-> k], LAMBDA k : ~EntryOk(data[k]))

C15_SkippedEntryCreatesNothing ==
    [][(last'.op = "import_orders_json" /\ last'.ok
           /\ SkippedPositions(exchange'[1].request.data) # <<>>) =>
                LET import_data == exchange'[1].request
                    rows == DocRows(import_data.data, 1)
                    response == exchange'[1].response
                IN  /\ exchange'[1].skipped = SkippedPositions(import_data.data)
                    /\ Cardinality(DOMAIN orders' \ DOMAIN orders) = rows.orders
                    /\ Cardinality(DOMAIN items' \ DOMAIN items) = rows.items
                    /\ DOMAIN orders \subseteq DOMAIN orders'
                    /\ DOMAIN items \subseteq DOMAIN items'
                    /\ response.imported_orders = rows.orders
                    /\ response.imported_items = rows.items
      ]_vars

(* The first entry of a document was skipped and the second imported. *)
C15_Witness ==
    /\ last.op = "import_orders_json" /\ last.ok
    /\ Len(exchange[1].request.data) = 2
    /\ ~EntryOk(exchange[1].request.data[1])
    /\ EntryOk(exchange[1].request.data[2])
    /\ exchange[1].skipped = <<1>>
    /\ exchange[1].response.imported_orders = 1
    /\ exchange[1].response.imported_items = 1
    /\ last.changes = 2

(* C16: when an import fails partway, on an item that lacks a key, the    *)
(* entries after the failing one are not processed and nothing is rolled   *)
(* back: every row stored before the import is still there unchanged, and  *)
(* the orders and items created up to the failure stay, among them the     *)
(* order of the failing entry with the items that preceded the bad one.    *)
FailingEntry(data) ==
    LET failing == {k \in 1..Len(data) :
                       EntryOk(data[k]) /\ FirstBad(data[k].items) # 0}
    IN  IF failing = {} THEN 0
        ELSE CHOOSE k \in failing : \A j \in failing : k <= j

C16_FailureKeepsCreatedRows ==
    [][(last'.op = "import_orders_json" /\ ~last'.ok
           /\ "data" \in DOMAIN exchange'[1].request) =>
          LET data == exchange'[1].request.data
              f == FailingEntry(data)
              before == DocRows(SubSeq(data, 1, f - 1), 1)
              new_orders == DOMAIN orders' \ DOMAIN orders
              new_items == DOMAIN items' \ DOMAIN items
              partial == SetMax(new_orders)
          IN  /\ f # 0
              /\ \A id \in DOMAIN orders :
                    id \in DOMAIN orders' /\ orders'[id] = orders[id]
              /\ \A id \in DOMAIN items :
                    id \in DOMAIN items' /\ items'[id] = items[id]
              /\ Cardinality(new_orders) = before.orders + 1
              /\ Cardinality(new_items) =
                    before.items + FirstBad(data[f].items) - 1
              /\ orders'[partial].customer_id = data[f].order.customer_id
              /\ Cardinality(new_items \cap ItemsOf(items', partial)) =
                    FirstBad(data[f].items) - 1
      ]_vars

(* An import has failed on the second item of its first entry: the order  *)
(* and its first item are stored next to an order stored before, and the   *)
(* valid second entry of the document was never imported.                  *)
C16_Witness ==
    /\ last.op = "import_orders_json" /\ ~last.ok /\ last.changes = 2
    /\ Len(exchange[1].request.data) = 2
    /\ FailingEntry(exchange[1].request.data) = 1
    /\ EntryOk(exchange[1].request.data[2])
    /\ Cardinality(DOMAIN orders) = 2
    /\ ItemsOf(items, order_seq) # {}

(* C17: when an import completes, the imported_orders it returns is the   *)
(* number of orders and the imported_items the number of items that the    *)
(* import added to the store.                                              *)
C17_CountsAreRowsAdded ==
    [][(last'.op = "import_orders_json" /\ last'.ok) =>
          LET response == exchange'[1].response
          IN  /\ response.status_code = 200
              /\ DOMAIN orders \subseteq DOMAIN orders'
              /\ DOMAIN items \subseteq DOMAIN items'
              /\ response.imported_orders =
                    Cardinality(DOMAIN orders' \ DOMAIN orders)
              /\ response.imported_items =
                    Cardinality(DOMAIN items' \ DOMAIN items)
      ]_vars

(* An import next to a stored order has completed and returned the counts *)
(* of one order and one item.                                              *)
C17_Witness ==
    /\ last.op = "import_orders_json" /\ last.ok
    /\ exchange[1].response.imported_orders = 1
    /\ exchange[1].response.imported_items = 1
    /\ Cardinality(DOMAIN orders) = 2

(* C18: when an import aborts on a malformed entry, it returns to the     *)
(* caller the counts of the orders and items it had created.               *)
C18_AbortReturnsCounts ==
    [][(last'.op = "import_orders_json" /\ ~last'.ok
           /\ "data" \in DOMAIN exchange'[1].request) =>
          LET response == exchange'[1].response
          IN  /\ {"imported_orders", "imported_items"} \subseteq DOMAIN response
              /\ response.imported_orders =
                    Cardinality(DOMAIN orders' \ DOMAIN orders)
              /\ response.imported_items =
                    Cardinality(DOMAIN items' \ DOMAIN items)
      ]_vars

(* C19: an import ignores the identifiers in the document.  Every order   *)
(* and item it creates gets an identifier never used before, every item    *)
(* it creates belongs to an order it created (when it completes: the k-th  *)
(* valid entry's items all belong to the k-th new order), and every order  *)
(* and item stored before the import is still there unchanged, whatever    *)
(* identifiers the document carries.                                       *)
C19_ImportAssignsFreshIds ==
    [][(last'.op = "import_orders_json"
           /\ "data" \in DOMAIN exchange'[1].request) =>
          LET valid == SelectSeq(exchange'[1].request.data, EntryOk)
              new_orders == DOMAIN orders' \ DOMAIN orders
              new_items == DOMAIN items' \ DOMAIN items
              created == Ascending(new_orders)
          IN  /\ \A id \in new_orders : \A u \in used_order_ids : id > u
              /\ \A id \in new_items : \A u \in used_item_ids : id > u
              /\ \A id \in new_items : items'[id].order_id \in new_orders
              /\ last'.ok =>
                    \A k \in 1..Len(valid) :
                       Cardinality(new_items \cap ItemsOf(items', created[k]))
                          = Len(valid[k].items)
              /\ \A id \in DOMAIN orders :
                    id \in DOMAIN orders' /\ orders'[id] = orders[id]
              /\ \A id \in DOMAIN items :
                    id \in DOMAIN items' /\ items'[id] = items[id]
      ]_vars

(* Order 1 and its item 1 were stored; a document whose entry names order *)
(* 1 and item 1 was imported as order 2 with item 2.                       *)
C19_Witness ==
    /\ last.op = "import_orders_json" /\ last.ok /\ last.changes = 2
    /\ exchange[1].request.data =
          <<[order |-> OrderInfo, items |-> <<GoodItemInfo>>]>>
    /\ OrderInfo.order_id = 1 /\ GoodItemInfo.order_item_id = 1
    /\ GoodItemInfo.order_id = 1
    /\ DOMAIN orders = {1, 2} /\ DOMAIN items = {1, 2}
    /\ orders[1].customer_id = 101 /\ orders[1].total_amount = 120
    /\ items[1].order_id = 1 /\ items[2].order_id = 2
    /\ orders[2].customer_id = 102

(* C20: importing the document that export produces from the store        *)
(* creates as many orders and as many items as the store held at export    *)
(* time, under new identifiers, and the total of the k-th created order    *)
(* equals the total the k-th exported order had.                           *)
C20_RoundTrip ==
    LET exported == Ascending(DOMAIN orders)
        r == import_orders_json(db, export_orders_json(db))
        new_orders == DOMAIN r.db.orders \ DOMAIN orders
        new_items == DOMAIN r.db.items \ DOMAIN items
        created == Ascending(new_orders)
    IN  /\ r.ok
        /\ r.imported_orders = Cardinality(DOMAIN orders)
        /\ r.imported_items = Cardinality(DOMAIN items)
        /\ Cardinality(new_orders) = Cardinality(DOMAIN orders)
        /\ Cardinality(new_items) = Cardinality(DOMAIN items)
        /\ \A id \in new_orders : id \notin used_order_ids
        /\ \A id \in new_items : id \notin used_item_ids
        /\ \A k \in 1..Len(exported) :
              r.db.orders[created[k]].total_amount
                 = orders[exported[k]].total_amount
(* C21: the export document lists every stored order exactly once, by    *)
(* ascending order id, each with exactly the items it owns by ascending   *)
(* item id, and total_orders is the number of listed orders; the SQL      *)
(* export emits, in the same order, each order's INSERT followed by the   *)
(* INSERTs of that order's items.                                         *)
StrictlyAscending(ids) ==
    \A j, k \in 1..Len(ids) : j < k => ids[j] < ids[k]

Inserts(sql_statements) ==
    SelectSeq(sql_statements,
              LAMBDA line : line.text \in {"INSERT INTO orders",
                                           "INSERT INTO order_items"})

C21_ExportListsOrdersWithItems ==
    /\ last.op = "export_orders_json" =>
          LET doc == exchange[1].response
              ids == [k \in 1..Len(doc.data) |-> doc.data[k].order.order_id]
          IN  /\ {ids[k] : k \in 1..Len(ids)} = DOMAIN orders
              /\ StrictlyAscending(ids)
              /\ doc.total_orders = Len(doc.data)
              /\ \A k \in 1..Len(doc.data) :
                    LET its == doc.data[k].items
                        item_ids == [j \in 1..Len(its) |->
                                        its[j].order_item_id]
                    IN  /\ doc.data[k].order = OrderOut(db, ids[k])
                        /\ {item_ids[j] : j \in 1..Len(its)}
                              = ItemsOf(items, ids[k])
                        /\ StrictlyAscending(item_ids)
                        /\ \A j \in 1..Len(its) :
                              its[j] = ItemDump(db, item_ids[j])
    /\ last.op = "export_orders_sql" =>
          LET lines == Inserts(exchange[1].response.sql_statements)
              at == {p \in 1..Len(lines) :
                        lines[p].text = "INSERT INTO orders"}
              order_ids == [k \in 1..Len(lines) |->
                               IF k \in at THEN lines[k].values[1] ELSE 0]
              owned == {i \in DOMAIN items :
                           items[i].order_id \in DOMAIN orders}
          IN  /\ {lines[p].values[1] : p \in at} = DOMAIN orders
              /\ Cardinality(at) = Cardinality(DOMAIN orders)
              /\ \A p, q \in at :
                    p < q => lines[p].values[1] < lines[q].values[1]
              /\ {lines[p].values[1] : p \in (1..Len(lines)) \ at} = owned
              /\ Len(lines) - Cardinality(at) = Cardinality(owned)
              /\ \A p \in (1..Len(lines)) \ at :
                    /\ p > 1
                    /\ lines[p].values[2] = items[lines[p].values[1]].order_id
                    /\ IF p - 1 \in at
                       THEN lines[p - 1].values[1] = lines[p].values[2]
                       ELSE /\ lines[p - 1].values[2] = lines[p].values[2]
                            /\ lines[p - 1].values[1] < lines[p].values[1]

C21_Witness ==
    /\ last.op = "export_orders_sql"
    /\ Cardinality(DOMAIN orders) = 2
    /\ \E order_id \in DOMAIN orders :
          Cardinality(ItemsOf(items, order_id)) = 2
    /\ Len(Inserts(exchange[1].response.sql_statements)) = 4

(* C22 (as claimed): with no orders the statistics give                   *)
(* average_order_value 0 and total_revenue 0; with at least one order     *)
(* average_order_value is the total revenue divided by the order count.   *)
C22_AverageIsRevenueOverCount ==
    last.op = "get_database_stats" =>
       LET stats == exchange[1].response
           total_revenue == SumLineTotal(
               [o \in DOMAIN orders |-> [line_total |->
                                            orders[o].total_amount]],
               DOMAIN orders)
       IN  IF orders = <<>>
           THEN stats.average_order_value = 0 /\ stats.total_revenue = 0
           ELSE stats.average_order_value * Cardinality(DOMAIN orders)
                   = total_revenue

(* C22 (amended): with no orders the statistics give                      *)
(* average_order_value 0 and total_revenue 0; with at least one order     *)
(* average_order_value is the total revenue divided by the order count,   *)
(* rounded to 2 decimals (a whole number of cents nearest to the          *)
(* quotient).                                                             *)
C22_AverageIsRoundedQuotient ==
    last.op = "get_database_stats" =>
       LET stats == exchange[1].response
           n == Cardinality(DOMAIN orders)
           total_revenue == SumLineTotal(
               [o \in DOMAIN orders |-> [line_total |->
                                            orders[o].total_amount]],
               DOMAIN orders)
           off == stats.average_order_value * n - total_revenue
       IN  IF orders = <<>>
           THEN stats.average_order_value = 0 /\ stats.total_revenue = 0
           ELSE /\ stats.average_order_value % 10 = 0
                /\ 2 * off <= 10 * n
                /\ 2 * off >= -(10 * n)

C22_Witness ==
    /\ last.op = "get_database_stats"
    /\ Cardinality(DOMAIN orders) = 2
    /\ exchange[1].response.average_order_value = 120
    /\ \A o \in DOMAIN orders : orders[o].total_amount = 125

(* C23: in every reachable state the statistics report's total_orders and *)
(* total_items are the number of stored orders and of stored items, and   *)
(* its total_revenue is the sum of the stored orders' total_amount (the   *)
(* database info reports the same counts).                                *)
C23_StatsMatchStore ==
    /\ last.op = "get_database_stats" =>
          LET stats == exchange[1].response
          IN  /\ stats.total_orders = Cardinality(DOMAIN orders)
              /\ stats.total_items = Cardinality(DOMAIN items)
              /\ stats.total_revenue =
                    SumLineTotal([o \in DOMAIN orders |->
                                     [line_total |-> orders[o].total_amount]],
                                 DOMAIN orders)
    /\ last.op = "get_database_info" =>
          LET info == exchange[1].response
          IN  /\ info.total_orders = Cardinality(DOMAIN orders)
              /\ info.total_items = Cardinality(DOMAIN items)

(* C24: statistics, order summary, database info, both exports and every  *)
(* get/list call write nothing: the stored orders and items, the totals   *)
(* and the id counters are the same after the call as before it.          *)
ReadOps ==
    {"get_order", "get_all_orders", "get_order_item", "get_all_order_items",
     "get_order_items_by_order", "get_order_summary", "export_orders_json",
     "export_orders_sql", "get_database_stats", "get_database_info"}

C24_ReadsWriteNothing ==
    [][last'.op \in ReadOps =>
          /\ StoreUnchanged
          /\ UNCHANGED <<used_order_ids, used_item_ids>>
          /\ last'.changes = 0]_vars

C24_Witness ==
    /\ last.op = "get_order_summary"
    /\ exchange[1].response # <<>>
    /\ exchange[1].response[1].summary.total_items = 2
    /\ exchange[1].response[1].summary.total_amount = 250

(* C25: updating or deleting an item through the path of a stored order  *)
(* that is not the item's stored owner is answered 404 "Order item not    *)
(* found in this order" and leaves the item, its owning order and the     *)
(* order of the path unchanged.                                           *)
PathOps == {"update_order_item_in_order", "delete_item_from_order"}

C25_WrongPathRejected ==
    [][(/\ last'.op \in PathOps
        /\ last'.order \in DOMAIN orders
        /\ last'.arg \in DOMAIN items
        /\ items[last'.arg].order_id # last'.order)
       => /\ ~last'.ok
          /\ exchange' = <<[status_code |-> 404, detail |-> ItemNotInOrder]>>
          /\ last'.arg \in DOMAIN items'
          /\ items'[last'.arg] = items[last'.arg]
          /\ orders' = orders
          /\ items' = items]_vars

C25_Witness ==
    /\ last.op = "delete_item_from_order"
    /\ ~last.ok
    /\ last.order \in DOMAIN orders
    /\ last.arg \in DOMAIN items
    /\ items[last.arg].order_id \in DOMAIN orders \ {last.order}
    /\ exchange = <<[status_code |-> 404, detail |-> ItemNotInOrder]>>

(* C26: two concurrent item mutations on the same order can interleave so *)
(* that, both having returned and nothing written since, the order's      *)
(* stored total differs from the sum of its items' line totals (the       *)
(* witness): in every run the UPDATE of the total stores the sum its call *)
(* read before, whatever other callers have committed in between.         *)
C26_TotalWrittenIsSumReadEarlier ==
    [][\A t \in Threads :
          (/\ calls[t].pc = "write"
           /\ calls'[t].pc # "write"
           /\ calls[t].order_id \in DOMAIN orders)
          => /\ calls[t].order_id \in DOMAIN orders'
             /\ orders'[calls[t].order_id].total_amount = calls[t].total]_vars

C26_Witness ==
    /\ \A t \in Threads :
          /\ calls[t].pc = "done"
          /\ calls[t].ok
          /\ calls[t].op \in ItemOps
    /\ \E order_id \in DOMAIN orders :
          /\ \A t \in Threads : calls[t].order_id = order_id
          /\ orders[order_id].total_amount # TotalOfItems(items, order_id)

(* C27: an item create, update or delete runs with its re-derivation of   *)
(* the total in one transaction scope: no state another caller can read   *)
(* shows the item change committed while the owning order's total is not  *)
(* yet the sum of its items.                                              *)
C27_ItemChangeAndTotalTogether ==
    \A t \in Threads :
       (/\ calls[t].op \in ItemOps
        /\ calls[t].pc \in {"sum", "write"}
        /\ calls[t].order_id \in DOMAIN orders)
       => orders[calls[t].order_id].total_amount
             = TotalOfItems(items, calls[t].order_id)

(* C29: an order created with its items is one atomic transaction: at any *)
(* moment another caller sees either nothing of it or the order with all  *)
(* of its requested items and its final total, and a failed call leaves   *)
(* nothing of it behind.                                                  *)
C29_OrderWithItemsAllOrNothing ==
    \A t \in Threads :
       calls[t].op = "create_order_with_items" =>
          LET order_id == calls[t].order_id
              requested == calls[t].request.items
          IN  \/ /\ order_id \notin DOMAIN orders
                 /\ ItemsOf(items, order_id) = {}
                 /\ ~(calls[t].pc = "done" /\ calls[t].ok)
              \/ /\ calls[t].pc = "done"
                 /\ calls[t].ok
                 /\ order_id \in DOMAIN orders
                 /\ Cardinality(ItemsOf(items, order_id)) = Len(requested)
                 /\ orders[order_id].total_amount =
                       SeqSum([k \in 1..Len(requested) |->
                                  requested[k].quantity
                                  * requested[k].unit_price])

(* C28: creating an order with items, run alone, returns and stores an    *)
(* order that owns exactly one item per requested item, each with         *)
(* line_total = quantity * unit_price, and whose total_amount is the sum  *)
(* of those line totals (0 for an empty item list).                       *)
C28_OrderOwnsRequestedItems ==
    (last.op = "create_order_with_items" /\ last.ok) =>
       LET requested == exchange[1].request.items
           returned == exchange[1].response[1]
           owned == Ascending(ItemsOf(items, last.order))
           total == SeqSum([k \in 1..Len(requested) |->
                              requested[k].quantity
                              * requested[k].unit_price])
       IN  /\ last.order \in DOMAIN orders
           /\ returned.order_id = last.order
           /\ returned.total_amount = total
           /\ orders[last.order].total_amount = total
           /\ Len(owned) = Len(requested)
           /\ \A k \in 1..Len(owned) :
                 k <= Len(requested) =>
                    /\ items[owned[k]].product_id = requested[k].product_id
                    /\ items[owned[k]].quantity = requested[k].quantity
                    /\ items[owned[k]].unit_price = requested[k].unit_price
                    /\ items[owned[k]].line_total =
                          requested[k].quantity * requested[k].unit_price

(* C30: every stored order item has quantity > 0 and unit_price >= 0,     *)
(* after any sequence of item creates, item updates and orders created    *)
(* with their items.                                                      *)
C30_QuantityPositivePriceNonNegative ==
    \A i \in DOMAIN items :
       items[i].quantity > 0 /\ items[i].unit_price >= 0


(* C31: the summary of an existing order reports total_items as the      *)
(* number of items the order owns, total_quantity as the sum of their    *)
(* quantities and, per product, the sum of the quantities of the order's *)
(* items with that product; for a missing order it answers not-found.    *)
QuantityOf(its, S) ==
    SumLineTotal([i \in DOMAIN its |-> [line_total |-> its[i].quantity]], S)

C31_SummaryCountsOwnedItems ==
    last.op = "get_order_summary" =>
        LET answer == exchange[1].response
            owned == ItemsOf(items, last.arg)
        IN  IF last.arg \notin DOMAIN orders THEN answer = <<>>
            ELSE /\ answer # <<>>
                 /\ answer[1].summary.total_items = Cardinality(owned)
                 /\ answer[1].summary.total_quantity = QuantityOf(items, owned)
                 /\ DOMAIN answer[1].summary.item_count_by_product
                        = {items[i].product_id : i \in owned}
                 /\ \A p \in DOMAIN answer[1].summary.item_count_by_product :
                        answer[1].summary.item_count_by_product[p].quantity
                          = QuantityOf(items,
                                {i \in owned : items[i].product_id = p})

C31_Witness ==
    /\ last.op = "get_order_summary"
    /\ last.arg \in DOMAIN orders
    /\ \E i, j \in ItemsOf(items, last.arg) :
          /\ i # j
          /\ items[i].product_id = items[j].product_id
          /\ items[i].quantity # items[j].quantity
    /\ exchange[1].response[1].summary.total_quantity = 3


(* C34: after an item create, update or delete on order O that ran to    *)
(* completion, O's total is the sum of its current items' line totals    *)
(* whatever O's total was before.                                         *)
C34_TotalIsSumWhateverBefore ==
    (last.op \in ItemOps /\ last.ok /\ last.order \in DOMAIN orders)
        => orders[last.order].total_amount
             = SumLineTotal(items, ItemsOf(items, last.order))

(* C34 as amended: the total written is that sum rounded to 2 decimals;  *)
(* a total that differed from it before the call is overwritten.         *)
C34_StaleTotalOverwritten ==
    [][(/\ last'.op \in ItemOps
        /\ last'.ok
        /\ last'.order \in DOMAIN orders
        /\ last'.order \in DOMAIN orders'
        /\ orders[last'.order].total_amount
              # TotalOfItems(items, last'.order))
       => orders'[last'.order].total_amount
            = TotalOfItems(items', last'.order)]_vars

C34_Witness ==
    /\ last.op \in ItemOps
    /\ last.ok
    /\ last.order \in DOMAIN orders
    /\ ItemsOf(items, last.order) # {}
    /\ orders[last.order].total_amount = TotalOfItems(items, last.order)
    /\ orders[last.order].total_amount
          # SumLineTotal(items, ItemsOf(items, last.order))
    /\ orders[last.order].total_amount < 150000


(* C37: through the router's item calls, the orders created with their  *)
(* items and the import, an item keeps the order_id it was created with  *)
(* from its creation until its deletion, and its identifier is not given *)
(* to a later item.                                                       *)
C37_OwnerKeptForLife ==
    [][/\ \A i \in DOMAIN items \cap DOMAIN items' :
             items'[i].order_id = items[i].order_id
       /\ (DOMAIN items' \ DOMAIN items) \cap used_item_ids = {}]_vars

C37_Witness ==
    /\ last.op = "update_order_item_in_order"
    /\ last.ok
    /\ Cardinality(DOMAIN orders) = 2
    /\ items[last.arg].order_id = last.order
    /\ items[last.arg].quantity = 4


(* C38: an item create, an item delete or an item update that keeps the  *)
(* item's order, on order A, leaves every other order's record and every *)
(* other item unchanged: only A's total and the targeted item change.    *)
C38_OnlyOrderAndItemTouched ==
    [][LET A == last'.order
           target == IF last'.op = "create_order_item"
                     THEN DOMAIN items' \ DOMAIN items
                     ELSE {last'.arg}
       IN  (\/ last'.op \in {"create_order_item", "delete_order_item"}
            \/ /\ last'.op = "update_order_item"
               /\ last'.arg \in DOMAIN items
               /\ items[last'.arg].order_id = A)
           => /\ DOMAIN orders' = DOMAIN orders
              /\ \A o \in DOMAIN orders :
                    /\ o # A => orders'[o] = orders[o]
                    /\ orders'[o].customer_id = orders[o].customer_id
                    /\ orders'[o].order_date = orders[o].order_date
              /\ DOMAIN items' \subseteq DOMAIN items \cup target
              /\ Cardinality(target) <= 1
              /\ \A i \in DOMAIN items \ target :
                    i \in DOMAIN items' /\ items'[i] = items[i]]_vars

C38_Witness ==
    /\ last.op \in {"create_order_item", "update_order_item",
                     "delete_order_item"}
    /\ last.ok
    /\ last.order \in DOMAIN orders
    /\ \E o \in DOMAIN orders :
          /\ o # last.order
          /\ ItemsOf(items, o) # {}
          /\ orders[o].total_amount = TotalOfItems(items, o)
          /\ orders[o].total_amount # orders[last.order].total_amount


(* C32: the total recomputation for an order id that no longer exists    *)
(* is a silent no-op: it raises no error (the call goes on), creates no  *)
(* order and changes no stored order or item.                            *)
C32_RecomputeForMissingOrderIsNoOp ==
    [][\A t \in Threads :
          (/\ calls[t].pc \in {"sum", "write"}
           /\ calls[t].order_id \notin DOMAIN orders
           /\ calls'[t] # calls[t])
          => /\ orders' = orders
             /\ items' = items
             /\ calls'[t].pc # calls[t].pc
             /\ calls'[t].ok]_vars

C32_Witness ==
    \E t \in Threads :
       /\ calls[t].op = "add_item_to_order"
       /\ calls[t].pc = "done"
       /\ calls[t].ok
       /\ calls[t].order_id \in used_order_ids \ DOMAIN orders
       /\ calls[t].item \in DOMAIN items

(* C35: when an add-item-to-order or an import ran next to a             *)
(* delete_order and all calls have completed, no stored item references  *)
(* an order that does not exist.                                         *)
C35_NoOrphanAfterDeleteRace ==
    (/\ \A t \in Threads : calls[t].pc = "done"
     /\ \E t, u \in Threads :
           /\ calls[t].op \in {"add_item_to_order", "import_orders_json"}
           /\ calls[u].op = "delete_order")
    => \A i \in DOMAIN items : items[i].order_id \in DOMAIN orders

(* C36: two delete_order_item calls for the same stored item, or two     *)
(* delete_order calls for the same stored order, running at once: one    *)
(* returns success and the other failure.                                *)
C36_ExactlyOneDeleteSucceeds ==
    \A t, u \in Threads :
       (/\ t # u
        /\ calls[t].pc = "done" /\ calls[u].pc = "done"
        /\ \/ /\ calls[t].op = "delete_order_item"
              /\ calls[u].op = "delete_order_item"
              /\ calls[t].item = calls[u].item
              /\ calls[t].order_id # NoId
           \/ /\ calls[t].op = "delete_order"
              /\ calls[u].op = "delete_order"
              /\ calls[t].order_id = calls[u].order_id
              /\ calls[t].found)
       => calls[t].ok # calls[u].ok

C36_Witness ==
    /\ \A t \in Threads :
          /\ calls[t].op = "delete_order_item"
          /\ calls[t].pc = "done"
          /\ calls[t].item = 1
          /\ calls[t].order_id # NoId
    /\ calls["a"].ok /\ ~calls["b"].ok


(* C39: an export or a statistics report taken while other calls write   *)
(* corresponds to one state the store passed through: the document is    *)
(* the one a report of that state alone would give.                      *)
C39_ReportIsOfOneStoreState ==
    \A t \in Threads :
       (calls[t].op \in ReportOps /\ calls[t].pc = "done")
       => \E s \in passed :
             LET d == [db EXCEPT !.orders = s.orders, !.items = s.items]
             IN  calls[t].answer[1]
                   = IF calls[t].op = "export_orders_json"
                     THEN export_orders_json(d)
                     ELSE get_database_stats(d)


(* C33: under fair scheduling every started call completes whatever the  *)
(* other caller does; a started call never waits for the other: its next *)
(* step can always be taken; and the import goes through the document    *)
(* once: its position in the document only moves forward.                *)
ImportPosition(call) ==
    call.k * (4 * (MaxItemId + 2))
      + (CASE call.pc = "import_order" -> 0
           [] call.pc = "sum" -> 4 * call.j + 1
           [] call.pc = "write" -> 4 * call.j + 2
           [] OTHER -> 4 * call.j + 3)

C33_StartedCallsComplete ==
    /\ \A t \in Threads :
          (calls[t].pc \notin {"idle", "done"}) ~> (calls[t].pc = "done")
    /\ [](\A t \in Threads :
            calls[t].pc \notin {"idle", "done"} => ENABLED <<Continue(t)>>_vars)
    /\ [][\A t \in Threads :
            (/\ calls[t].op = "import_orders_json"
             /\ calls[t].pc # "done"
             /\ calls'[t] # calls[t]
             /\ calls'[t].pc # "done")
            => ImportPosition(calls'[t]) > ImportPosition(calls[t])]_vars

C33_Witness ==
    /\ calls["a"].op = "import_orders_json"
    /\ calls["a"].pc = "done"
    /\ calls["a"].ok
    /\ calls["a"].k = 2
    /\ calls["a"].j = 2
    /\ calls["b"].op = "delete_order"
    /\ calls["b"].pc = "done"
    /\ calls["b"].ok
    /\ calls["b"].order_id = calls["a"].order_id

====
